---- MODULE Spec2Model ----
(***************************************************************************)
(* Model of the MECM dashboard data collector (Collect-MECMData.ps1): one  *)
(* sequential run of the script against a SQL data source, from parameter  *)
(* handling to the write of the JSON snapshot.                             *)
(*                                                                         *)
(* Conventions                                                             *)
(*   - Percentages rounded to one decimal are held in tenths of a percent: *)
(*     75.0 is 750, 100.0 is 1000.                                         *)
(*   - A nullable SQL cell is <<>> (NULL) or <<n>>.                        *)
(*   - sv is the script's variable scope: one field per script variable.   *)
(*   - Invoke-SqlQuery is modelled as returning the DataTable it filled.   *)
(***************************************************************************)
EXTENDS Integers, Sequences, FiniteSets, TLC

(***************************************************************************)
(* Bounds of the model.                                                    *)
(***************************************************************************)
\* Query attempts that fail (missing view, timeout) in a run with a reachable server.
MaxFaults == 1
\* States of the pseudo-random generator behind Get-Random.
RngStates == 5
\* Midnights that pass during a run.
MaxMidnights == 1

(***************************************************************************)
(* Values and arithmetic.                                                  *)
(***************************************************************************)
Null == <<>>
Val(n) == <<n>>
IsNull(c) == c = Null

\* SUM(...) over the rows of a table: NULL when the table has no row.
SqlSum(rows, n) == IF rows = 0 THEN Null ELSE Val(n)

\* [math]::Round of the non-negative rational n/d to an integer (.NET default:
\* midpoints go to the even neighbour).
RoundHalfEven(n, d) ==
    LET q == n \div d
        r == n % d
    IN  IF 2 * r < d THEN q
        ELSE IF 2 * r > d THEN q + 1
        ELSE IF q % 2 = 0 THEN q ELSE q + 1

\* A percent that reads 100 over an empty population: a faulty variant of Percent.
Percent_HundredOnZero(num, den) == IF den > 0 THEN RoundHalfEven(num * 1000, den) ELSE 1000

\* if ($den -gt 0) { [math]::Round(($num / $den) * 100, 1) } else { 0 }, in tenths.
Percent(num, den) == IF den > 0 THEN RoundHalfEven(num * 1000, den) ELSE 0

\* A draw that may return its -Maximum: a faulty variant of GetRandom.
GetRandom_InclusiveMax(s, lo, hi) == lo + (s % (hi - lo + 1))

\* Get-Random -Minimum lo -Maximum hi on generator state s: an integer in lo..hi-1.
GetRandom(s, lo, hi) == lo + (s % (hi - lo))
RngStep(s) == (s + 1) % RngStates

\* The first index of a NULL cell in a sequence of cells, Len+1 when there is none:
\* the position at which a run of [int] casts throws.
RECURSIVE FirstNull(_, _)
FirstNull(cells, i) ==
    IF i > Len(cells) THEN i
    ELSE IF IsNull(cells[i]) THEN i
    ELSE FirstNull(cells, i + 1)

(***************************************************************************)
(* The data source: what each query returns when it executes.              *)
(***************************************************************************)
Blocks == {"site", "client", "content", "compliance", "deploy", "edge"}

\* v_Site / v_Identification / SC_SiteDefinition answers (TOP 1).
FullSite ==
    [siteInfo |-> <<[SiteCode |-> "PS1", SiteName |-> "Primary", ServerName |-> "cm01", SiteVersion |-> "9128"]>>,
     idInfo   |-> <<[ThisSiteCode |-> "ID1", ThisSiteName |-> "Ident", ParentSiteServer |-> "cm02"]>>,
     scInfo   |-> <<[SiteCode |-> "SC1", SiteName |-> "SiteDef", ServerName |-> "cm03"]>>]
MixedSite ==
    [siteInfo |-> <<>>,
     idInfo   |-> <<[ThisSiteCode |-> "ID1", ThisSiteName |-> "Ident", ParentSiteServer |-> ""]>>,
     scInfo   |-> <<[SiteCode |-> "SC1", SiteName |-> "SiteDef", ServerName |-> "cm03"]>>]
LateSite ==
    [siteInfo |-> <<>>,
     idInfo   |-> <<>>,
     scInfo   |-> <<[SiteCode |-> "SC1", SiteName |-> "SiteDef", ServerName |-> "cm03"]>>]
EmptySite == [siteInfo |-> <<>>, idInfo |-> <<>>, scInfo |-> <<>>]
SiteTables == {FullSite, MixedSite, LateSite, EmptySite}

\* The client-count aggregate over the v_CH_ClientSummary/v_Client join of n rows.
ClientJoinRow(n, act, hl, unh) ==
    [TotalDevices |-> Val(n), ActiveClients |-> SqlSum(n, act),
     HealthyClients |-> SqlSum(n, hl), UnhealthyClients |-> SqlSum(n, unh),
     InactiveClients |-> SqlSum(n, n - act)]
\* The v_R_System fallback over n rows.
ClientSysRow(n) ==
    [TotalDevices |-> Val(n), ActiveClients |-> Val(n),
     HealthyClients |-> Val(0), UnhealthyClients |-> Val(0), InactiveClients |-> Val(0)]
\* The activity aggregate over v_CH_ClientSummary of n rows.
ActivityRow(n, h24, h48, d7, o30) ==
    [Last24h |-> SqlSum(n, h24), Last48h |-> SqlSum(n, h48),
     Last7d |-> SqlSum(n, d7), Over30d |-> SqlSum(n, o30)]

EmptyClients ==
    [clientCountsJoin |-> <<ClientJoinRow(0, 0, 0, 0)>>,
     clientCountsSys  |-> <<ClientSysRow(0)>>,
     osDist           |-> <<>>,
     actData          |-> <<ActivityRow(0, 0, 0, 0, 0)>>]
SomeClients ==
    [clientCountsJoin |-> <<ClientJoinRow(8, 7, 5, 2)>>,
     clientCountsSys  |-> <<ClientSysRow(8)>>,
     osDist           |-> <<[OS |-> "Windows 11", DeviceCount |-> Val(5)],
                            [OS |-> "Windows 10", DeviceCount |-> Val(3)]>>,
     actData          |-> <<ActivityRow(8, 4, 6, 7, 1)>>]

\* The distribution-point aggregate over v_DistributionPoints of n rows.
DpRow(n, hl, wr, er) ==
    [TotalDPs |-> Val(n), HealthyDPs |-> SqlSum(n, hl), WarningDPs |-> SqlSum(n, wr),
     ErrorDPs |-> SqlSum(n, er)]
\* The package aggregate over v_ContDistStatSummary of n rows.
ContentSummaryRow(n, ok, bad, prog) ==
    [TotalPackages |-> Val(n), DistributedSuccess |-> SqlSum(n, ok),
     DistributedFailed |-> SqlSum(n, bad), DistributedInProgress |-> SqlSum(n, prog)]

EmptyContent ==
    [dpData         |-> <<DpRow(0, 0, 0, 0)>>,
     contentSummary |-> <<ContentSummaryRow(0, 0, 0, 0)>>,
     dpGroups       |-> <<>>,
     failedPkgs     |-> <<>>]
SomeContent ==
    [dpData         |-> <<DpRow(3, 1, 1, 1)>>,
     contentSummary |-> <<ContentSummaryRow(4, 3, 1, 0)>>,
     dpGroups       |-> <<[Name |-> "All DPs", Members |-> Val(3), Packages |-> Val(4),
                           Compliance |-> Val(750)]>>,
     failedPkgs     |-> <<[Name |-> "Office", PackageID |-> "DB100001", Type |-> Val(512),
                           FailedDPs |-> Val(1), Error |-> ""]>>]

\* The severity aggregate over the n missing-update rows (Status = 2).
SeverityRow(n, cr, im, mo, lo, un) ==
    [Critical |-> SqlSum(n, cr), Important |-> SqlSum(n, im), Moderate |-> SqlSum(n, mo),
     Low |-> SqlSum(n, lo), Unrated |-> SqlSum(n, un)]
\* The scan-age aggregate over v_UpdateScanStatus of n rows.
ScanRow(n, h24, h48, d7, o7) ==
    [Within24h |-> SqlSum(n, h24), Within48h |-> SqlSum(n, h48),
     Within7d |-> SqlSum(n, d7), Over7d |-> SqlSum(n, o7)]

EmptyCompliance ==
    [compData   |-> <<[TotalManaged |-> Val(0), CompliantDevices |-> Val(0)]>>,
     missingSev |-> <<SeverityRow(0, 0, 0, 0, 0, 0)>>,
     topMissing |-> <<>>,
     scanData   |-> <<ScanRow(0, 0, 0, 0, 0)>>]
SomeCompliance ==
    [compData   |-> <<[TotalManaged |-> Val(2), CompliantDevices |-> Val(2)]>>,
     missingSev |-> <<SeverityRow(3, 1, 1, 0, 0, 1)>>,
     topMissing |-> <<[Title |-> "KB5030211", Severity |-> "", MissingCount |-> Val(2),
                       Released |-> "2023-09-12"]>>,
     scanData   |-> <<ScanRow(4, 1, 2, 3, 1)>>]

\* One group of the deployment-status query.
DeploymentRow(name, ttl, inst, fl, pr, status) ==
    [Name |-> name, CollectionName |-> "All Workstations", Total |-> Val(ttl),
     Installed |-> Val(inst), Downloading |-> Val(0), Waiting |-> Val(ttl - inst - fl - pr),
     Failed |-> Val(fl), PendingRestart |-> Val(pr), Deadline |-> "2024-01-31",
     Status |-> status]

EmptyDeploy == [deployments |-> <<>>, errCodes |-> <<>>]
SomeDeploy ==
    [deployments |-> <<DeploymentRow("Patch A", 4, 3, 0, 1, "active"),
                       DeploymentRow("Patch B", 4, 2, 1, 0, "warning")>>,
     errCodes    |-> <<[Code |-> Val(11756), Description |-> "Unknown", Count |-> Val(1)]>>]

EmptyEdge ==
    [edgeInstalled |-> <<[EdgeCount |-> Val(0)]>>, dbData |-> <<>>, verData |-> <<>>]
SomeEdge ==
    [edgeInstalled |-> <<[EdgeCount |-> Val(8)]>>,
     dbData        |-> <<[Browser |-> "edge", Count |-> Val(5)],
                         [Browser |-> "chrome", Count |-> Val(2)]>>,
     verData       |-> <<[Version |-> "120.0.2210.91", Count |-> Val(8)]>>]

(***************************************************************************)
(* Script parameters.                                                      *)
(***************************************************************************)
LiveParams == [ServerName |-> "sql01", DatabaseName |-> "CM_DB1", UseSampleData |-> FALSE]

\* The match made case-sensitively (-cmatch): a faulty variant of CmCapture.
CmCapture_CaseSensitive(name) ==
    IF Len(name) >= 4 /\ SubSeq(name, 1, 3) = "CM_"
    THEN SubSeq(name, 4, Len(name))
    ELSE ""

\* $DatabaseName -match '^CM_(.+)$' (case-insensitive): the captured group, "" when
\* the name does not match.
CmCapture(name) ==
    IF Len(name) >= 4 /\ SubSeq(name, 1, 3) \in {"CM_", "Cm_", "cM_", "cm_"}
    THEN SubSeq(name, 4, Len(name))
    ELSE ""

(***************************************************************************)
(* State.                                                                  *)
(***************************************************************************)
VARIABLES
    pc,        \* position of the script
    params,    \* the script's parameters
    tables,    \* the data source's answers
    outage,    \* blocks whose every query attempt fails (unreachable or missing views)
    faults,    \* failed attempts so far outside an outage
    rng,       \* Get-Random's generator: <<>> before the first draw, then <<state>>
    today,     \* the calendar day Get-Date reads
    midnights, \* the midnights still to pass during the run
    attempts,  \* the queries sent so far, in order, with their outcome
    sv,        \* the script's variables
    outFile,   \* content of $OutputPath: an earlier document, a partial one, the sample or a snapshot
    page,      \* what the dashboard shows: <<>> before it has loaded, then the rendered page
    srv        \* the file server: its position in the serve loop, the request, the responses

vars == <<pc, params, tables, outage, faults, rng, today, midnights, attempts, sv, outFile,
          page, srv>>


\* The script's variables before any assignment ($null reads as 0, "" or an empty list).
InitVars ==
    [siteCode |-> "", siteName |-> "", siteServer |-> "", siteVersion |-> "",
     environment |-> <<>>,
     total |-> 0, healthy |-> 0, active |-> 0, unhealthy |-> 0, inactive |-> 0,
     healthPct |-> 0, osArray |-> <<>>, healthTrend |-> <<>>,
     activityBreakdown |-> <<>>, clientCounts |-> <<>>, i |-> 0,
     clientHealth |-> <<>>,
     contentDistribution |-> <<>>,
     totalManaged |-> 0, compliant |-> 0, compPct |-> 0, scanCov |-> 0,
     scanDistribution |-> <<>>, missingSevData |-> <<>>, topMissingArray |-> <<>>,
     compTrend |-> <<>>, softwareUpdateCompliance |-> <<>>,
     deployArray |-> <<>>, errArray |-> <<>>, totalPendingRestarts |-> 0,
     totalInstalled |-> 0, grandTotal |-> 0, successRate |-> 0, activeCount |-> 0,
     failedCount |-> 0, softwareUpdateDeployment |-> <<>>,
     edgeCount |-> 0, totalBrowserDevices |-> 0, defaultBrowser |-> <<>>,
     edgeVersions |-> <<>>, edgePen |-> 0, edgeManagement |-> <<>>,
     scores |-> <<>>, overallScore |-> 0, riskLevel |-> "", findings |-> <<>>,
     securityOverview |-> <<>>, dashboard |-> <<>>]

\* Which attempts may fail, which may succeed: inside an outage every attempt fails,
\* outside one at most MaxFaults attempts of the run fail.
Outcomes(b) ==
    {o \in BOOLEAN : IF o THEN b \notin outage ELSE (b \in outage \/ faults < MaxFaults)}

\* Invoke-SqlQuery: one attempt of query q of block b with outcome o (TRUE: the
\* DataTable is returned; FALSE: Open/Fill raised, or the 120 s CommandTimeout expired).
InvokeSqlQuery(b, q, o) ==
    /\ o \in Outcomes(b)
    /\ attempts' = Append(attempts, [q |-> q, ok |-> o])
    /\ faults' = IF ~o /\ b \notin outage THEN faults + 1 ELSE faults

NoQuery == UNCHANGED <<attempts, faults>>

\* The inputs of a run.
ParamSets ==
    {LiveParams,
     [LiveParams EXCEPT !.DatabaseName = "ConfigMgr"],
     [LiveParams EXCEPT !.DatabaseName = "cm_x"],
     [LiveParams EXCEPT !.DatabaseName = "CM_"],
     [LiveParams EXCEPT !.DatabaseName = ""],
     [LiveParams EXCEPT !.ServerName = ""],
     [LiveParams EXCEPT !.UseSampleData = TRUE],
     [ServerName |-> "", DatabaseName |-> "", UseSampleData |-> TRUE]}


PopulatedDb ==
    [site |-> FullSite, client |-> SomeClients, content |-> SomeContent,
     compliance |-> SomeCompliance, deploy |-> SomeDeploy, edge |-> SomeEdge]
EmptyDb ==
    [site |-> FullSite, client |-> EmptyClients, content |-> EmptyContent,
     compliance |-> EmptyCompliance, deploy |-> EmptyDeploy, edge |-> EmptyEdge]
\* The populated database, the empty one, and the populated one with one domain's
\* tables empty.
Databases ==
    {PopulatedDb, EmptyDb,
     [PopulatedDb EXCEPT !.client = EmptyClients],
     [PopulatedDb EXCEPT !.content = EmptyContent],
     [PopulatedDb EXCEPT !.compliance = EmptyCompliance],
     [PopulatedDb EXCEPT !.deploy = EmptyDeploy],
     [PopulatedDb EXCEPT !.edge = EmptyEdge]}

\* Live runs over every database; live runs with any set of blocks out; live runs
\* over every shape of the site views; and every parameter set against site views that
\* hold no row or a server that cannot be reached.
Scenarios ==
    {[params |-> LiveParams, outage |-> {}, tables |-> t] : t \in Databases}
    \cup {[params |-> LiveParams, outage |-> o, tables |-> PopulatedDb] : o \in SUBSET Blocks}
    \cup {[params |-> LiveParams, outage |-> {}, tables |-> [PopulatedDb EXCEPT !.site = s]] :
            s \in SiteTables}
    \cup {[params |-> p, outage |-> {}, tables |-> [PopulatedDb EXCEPT !.site = EmptySite]] :
            p \in ParamSets}
    \cup {[params |-> p, outage |-> Blocks, tables |-> PopulatedDb] : p \in ParamSets}

\* The file server right after $listener.Start(): waiting in GetContext, no connection
\* pending, $bytes not yet assigned, nothing answered.
ServerStart ==
    [at |-> "accept", queue |-> <<>>, accepted |-> <<>>, req |-> "", bytes |-> <<>>,
     readFaults |-> 0, log |-> <<>>]

\* The midnights a run may cross: none, or up to MaxMidnights for a live run in which
\* only the client-health and compliance views answer or no view answers at all.
Nights(p, t, o) ==
    IF p = LiveParams /\ t = PopulatedDb /\ o \in {Blocks \ {"client", "compliance"}, Blocks}
    THEN 0 .. MaxMidnights
    ELSE {0}

Init ==
    /\ \E sc \in Scenarios :
          /\ params = sc.params
          /\ outage = sc.outage
          /\ tables = sc.tables
    /\ pc = "start"
    /\ faults = 0
    /\ rng = <<>>
    /\ today = 0
    /\ midnights \in Nights(params, tables, outage)
    /\ attempts = <<>>
    /\ sv = InitVars
    /\ outFile = [kind |-> "old", doc |-> <<>>]
    /\ page = <<>>
    /\ srv = ServerStart

(***************************************************************************)
(* Parameter handling.                                                     *)
(***************************************************************************)
\* A sample mode that runs only when both names are given: a faulty variant of SampleData.
SampleData_NeedsNames ==
    /\ pc = "start"
    /\ params.UseSampleData
    /\ params.ServerName # "" /\ params.DatabaseName # ""
    /\ \E sampleExists \in BOOLEAN :
          IF sampleExists
          THEN /\ outFile' = [kind |-> "sample", doc |-> <<>>]
               /\ pc' = "done"
          ELSE /\ outFile' = outFile
               /\ pc' = "failed"
    /\ UNCHANGED <<params, tables, outage, faults, rng, today, midnights, page, srv, attempts, sv>>

\* -UseSampleData: copy data\sample_data.json over $OutputPath and return.
SampleData ==
    /\ pc = "start"
    /\ params.UseSampleData
    /\ \E sampleExists \in BOOLEAN :
          IF sampleExists
          THEN /\ outFile' = [kind |-> "sample", doc |-> <<>>]
               /\ pc' = "done"
          ELSE /\ outFile' = outFile
               /\ pc' = "failed"
    /\ UNCHANGED <<params, tables, outage, faults, rng, today, midnights, page, srv, attempts, sv>>

\* A validation that looks at the server name only: a faulty variant of ValidateParams.
ValidateParams_ServerOnly ==
    /\ pc = "start"
    /\ ~params.UseSampleData
    /\ pc' = IF params.ServerName = "" THEN "failed" ELSE "site1"
    /\ UNCHANGED <<params, tables, outage, faults, rng, today, midnights, page, srv, attempts, sv, outFile>>

\* Live mode needs both names; Write-Error under $ErrorActionPreference = 'Stop' ends the script.
ValidateParams ==
    /\ pc = "start"
    /\ ~params.UseSampleData
    /\ pc' = IF params.ServerName = "" \/ params.DatabaseName = "" THEN "failed" ELSE "site1"
    /\ UNCHANGED <<params, tables, outage, faults, rng, today, midnights, page, srv, attempts, sv, outFile>>

(***************************************************************************)
(* 1. Site info.                                                           *)
(***************************************************************************)
\* Attempt 1: v_Site.
SiteAttempt1 ==
    /\ pc = "site1"
    /\ \E o \in BOOLEAN :
          /\ InvokeSqlQuery("site", "v_Site", o)
          /\ LET rows == tables.site.siteInfo
                 s0 == [sv EXCEPT !.siteCode = "", !.siteName = "", !.siteServer = "", !.siteVersion = ""]
             IN  sv' = IF o /\ Len(rows) > 0
                       THEN [s0 EXCEPT !.siteCode = rows[1].SiteCode, !.siteName = rows[1].SiteName,
                                       !.siteServer = rows[1].ServerName, !.siteVersion = rows[1].SiteVersion]
                       ELSE s0
    /\ pc' = "site2"
    /\ UNCHANGED <<params, tables, outage, rng, today, midnights, page, srv, outFile>>

\* Attempt 2 without the test of $siteCode: a faulty variant of SiteAttempt2 that queries
\* v_Identification whatever v_Site returned.
SiteAttempt2_NoGuard ==
    /\ pc = "site2"
    /\ \E o \in BOOLEAN :
          /\ InvokeSqlQuery("site", "v_Identification", o)
          /\ LET rows == tables.site.idInfo
             IN  sv' = IF o /\ Len(rows) > 0
                       THEN [sv EXCEPT !.siteCode = rows[1].ThisSiteCode, !.siteName = rows[1].ThisSiteName,
                                       !.siteServer = rows[1].ParentSiteServer]
                       ELSE sv
    /\ pc' = "site3"
    /\ UNCHANGED <<params, tables, outage, rng, today, midnights, page, srv, outFile>>

\* Attempt 2: v_Identification, only while no site code is known.
SiteAttempt2 ==
    /\ pc = "site2"
    /\ IF sv.siteCode = ""
       THEN \E o \in BOOLEAN :
              /\ InvokeSqlQuery("site", "v_Identification", o)
              /\ LET rows == tables.site.idInfo
                 IN  sv' = IF o /\ Len(rows) > 0
                           THEN [sv EXCEPT !.siteCode = rows[1].ThisSiteCode, !.siteName = rows[1].ThisSiteName,
                                           !.siteServer = rows[1].ParentSiteServer]
                           ELSE sv
       ELSE NoQuery /\ sv' = sv
    /\ pc' = "site3"
    /\ UNCHANGED <<params, tables, outage, rng, today, midnights, page, srv, outFile>>

\* Attempt 3 made only after a failed attempt 2: a faulty variant of SiteAttempt3 that
\* takes a view that executed without a row for the end of the chain.
SiteAttempt3_OnFailureOnly ==
    /\ pc = "site3"
    /\ IF sv.siteCode = "" /\ ~attempts[Len(attempts)].ok
       THEN \E o \in BOOLEAN :
              /\ InvokeSqlQuery("site", "SC_SiteDefinition", o)
              /\ LET rows == tables.site.scInfo
                 IN  sv' = IF o /\ Len(rows) > 0
                           THEN [sv EXCEPT !.siteCode = rows[1].SiteCode, !.siteName = rows[1].SiteName,
                                           !.siteServer = rows[1].ServerName]
                           ELSE sv
       ELSE NoQuery /\ sv' = sv
    /\ pc' = "site4"
    /\ UNCHANGED <<params, tables, outage, rng, today, midnights, page, srv, outFile>>

\* Attempt 3: SC_SiteDefinition, only while no site code is known.
SiteAttempt3 ==
    /\ pc = "site3"
    /\ IF sv.siteCode = ""
       THEN \E o \in BOOLEAN :
              /\ InvokeSqlQuery("site", "SC_SiteDefinition", o)
              /\ LET rows == tables.site.scInfo
                 IN  sv' = IF o /\ Len(rows) > 0
                           THEN [sv EXCEPT !.siteCode = rows[1].SiteCode, !.siteName = rows[1].SiteName,
                                           !.siteServer = rows[1].ServerName]
                           ELSE sv
       ELSE NoQuery /\ sv' = sv
    /\ pc' = "site4"
    /\ UNCHANGED <<params, tables, outage, rng, today, midnights, page, srv, outFile>>

\* Attempt 4 without the throw: a faulty variant of SiteAttempt4 that goes on with an
\* empty site code when the database name does not match.
SiteAttempt4_NeverThrows ==
    /\ pc = "site4"
    /\ LET code == CmCapture(params.DatabaseName)
       IN  IF sv.siteCode # ""
           THEN sv' = sv
           ELSE sv' = [sv EXCEPT !.siteCode = code, !.siteName = code \o " Site",
                                 !.siteServer = params.ServerName]
    /\ pc' = "environment"
    /\ UNCHANGED <<params, tables, outage, faults, rng, today, midnights, page, srv, attempts, outFile>>

\* Attempt 4: derive the site code from the database name, or throw.
SiteAttempt4 ==
    /\ pc = "site4"
    /\ LET code == CmCapture(params.DatabaseName)
       IN  IF sv.siteCode # ""
           THEN sv' = sv /\ pc' = "environment"
           ELSE IF code # ""
           THEN /\ sv' = [sv EXCEPT !.siteCode = code, !.siteName = code \o " Site",
                                    !.siteServer = params.ServerName]
                /\ pc' = "environment"
           ELSE sv' = sv /\ pc' = "failed"
    /\ UNCHANGED <<params, tables, outage, faults, rng, today, midnights, page, srv, attempts, outFile>>

\* $environment.
BuildEnvironment ==
    /\ pc = "environment"
    /\ sv' = [sv EXCEPT !.environment =
                [siteCode    |-> sv.siteCode,
                 siteName    |-> sv.siteName,
                 siteServer  |-> IF sv.siteServer # "" THEN sv.siteServer ELSE params.ServerName,
                 siteVersion |-> IF sv.siteVersion # "" THEN sv.siteVersion ELSE "",
                 dbServer    |-> params.ServerName]]
    /\ pc' = "client"
    /\ UNCHANGED <<params, tables, outage, faults, rng, today, midnights, page, srv, attempts, outFile>>

(***************************************************************************)
(* 2. Client health.                                                       *)
(***************************************************************************)
ClientDefaults ==
    /\ pc = "client"
    /\ sv' = [sv EXCEPT !.total = 0, !.healthy = 0, !.active = 0, !.unhealthy = 0,
                        !.inactive = 0, !.healthPct = 0, !.osArray = <<>>, !.healthTrend = <<>>,
                        !.activityBreakdown = [last24h |-> 0, last48h |-> 0, last7d |-> 0, over30d |-> 0]]
    /\ pc' = "clientJoin"
    /\ UNCHANGED <<params, tables, outage, faults, rng, today, midnights, page, srv, attempts, outFile>>

\* Client counts, first variant: the v_CH_ClientSummary / v_Client join.
ClientCountsJoin ==
    /\ pc = "clientJoin"
    /\ \E o \in BOOLEAN :
          /\ InvokeSqlQuery("client", "clientCountsJoin", o)
          /\ sv' = [sv EXCEPT !.clientCounts = IF o THEN tables.client.clientCountsJoin ELSE <<>>]
          /\ pc' = IF o THEN "clientNormalize" ELSE "clientFallback"
    /\ UNCHANGED <<params, tables, outage, rng, today, midnights, page, srv, outFile>>

\* A second variant whose failure ends the script, as the last step of the site chain
\* does: a faulty variant of ClientCountsFallback.
ClientCountsFallback_Fatal ==
    /\ pc = "clientFallback"
    /\ \E o \in BOOLEAN :
          /\ InvokeSqlQuery("client", "v_R_System", o)
          /\ sv' = [sv EXCEPT !.clientCounts = IF o THEN tables.client.clientCountsSys ELSE <<>>]
          /\ pc' = IF o THEN "clientNormalize" ELSE "failed"
    /\ UNCHANGED <<params, tables, outage, rng, today, midnights, page, srv, outFile>>

\* Client counts, second variant (in the catch of the first): v_R_System.
ClientCountsFallback ==
    /\ pc = "clientFallback"
    /\ \E o \in BOOLEAN :
          /\ InvokeSqlQuery("client", "v_R_System", o)
          /\ sv' = [sv EXCEPT !.clientCounts = IF o THEN tables.client.clientCountsSys ELSE <<>>]
    /\ pc' = "clientNormalize"
    /\ UNCHANGED <<params, tables, outage, rng, today, midnights, page, srv, outFile>>

\* The value of the k-th assignment of a run of [int] casts that throws at index stop.
Cast(old, cells, k, stop) == IF k < stop THEN cells[k][1] ELSE old

\* Normalisation of the client counts; a NULL cell makes its cast throw to the outer catch.
ClientNormalize ==
    /\ pc = "clientNormalize"
    /\ IF Len(sv.clientCounts) > 0
       THEN LET row   == sv.clientCounts[1]
                cells == <<row.TotalDevices, row.HealthyClients, row.ActiveClients,
                           row.UnhealthyClients, row.InactiveClients>>
                stop  == FirstNull(cells, 1)
                s1    == [sv EXCEPT !.total = Cast(@, cells, 1, stop),
                                    !.healthy = Cast(@, cells, 2, stop),
                                    !.active = Cast(@, cells, 3, stop),
                                    !.unhealthy = Cast(@, cells, 4, stop),
                                    !.inactive = Cast(@, cells, 5, stop)]
            IN  IF stop <= Len(cells)
                THEN sv' = s1 /\ pc' = "clientRecord"
                ELSE /\ sv' = [s1 EXCEPT !.healthPct = Percent(s1.healthy, s1.total), !.i = 6]
                     /\ pc' = "healthTrend"
       ELSE sv' = [sv EXCEPT !.i = 6] /\ pc' = "healthTrend"
    /\ UNCHANGED <<params, tables, outage, faults, rng, today, midnights, page, srv, attempts, outFile>>

\* The generator states a draw may find: any seed on the first draw of the run.
RngNow == IF rng = <<>> THEN 0 .. (RngStates - 1) ELSE {rng[1]}

\* One iteration of the health-trend loop.
HealthTrendLoop ==
    /\ pc = "healthTrend"
    /\ sv.i >= 0
    /\ \E s \in RngNow :
          /\ sv' = [sv EXCEPT !.healthTrend =
                        Append(@, [date |-> today - sv.i,
                                   percent |-> sv.healthPct + 10 * GetRandom(s, -2, 1)]),
                              !.i = @ - 1]
          /\ rng' = <<RngStep(s)>>
    /\ pc' = "healthTrend"
    /\ UNCHANGED <<params, tables, outage, faults, today, midnights, page, srv, attempts, outFile>>

\* A trend left as the loop built it: the last point keeps its random offset.
PinLast_Unpinned(trend, pct) == trend

\* A trend whose last point carries the current percent.
PinLast(trend, pct) ==
    IF Len(trend) > 0 THEN [trend EXCEPT ![Len(trend)].percent = pct] ELSE trend

HealthTrendLast ==
    /\ pc = "healthTrend"
    /\ sv.i < 0
    /\ sv' = [sv EXCEPT !.healthTrend = PinLast(@, sv.healthPct)]
    /\ pc' = "osDist"
    /\ UNCHANGED <<params, tables, outage, faults, rng, today, midnights, page, srv, attempts, outFile>>

\* The rows of a foreach that are processed before a cast throws.
Processed(rows, cells) == SubSeq(rows, 1, FirstNull(cells, 1) - 1)

OsDistribution ==
    /\ pc = "osDist"
    /\ \E o \in BOOLEAN :
          /\ InvokeSqlQuery("client", "osDist", o)
          /\ LET rows == tables.client.osDist
                 done == Processed(rows, [k \in 1..Len(rows) |-> rows[k].DeviceCount])
             IN  sv' = IF o
                       THEN [sv EXCEPT !.osArray =
                               [k \in 1..Len(done) |->
                                  [os |-> done[k].OS, count |-> done[k].DeviceCount[1],
                                   percent |-> Percent(done[k].DeviceCount[1], sv.total)]]]
                       ELSE sv
    /\ pc' = "activity"
    /\ UNCHANGED <<params, tables, outage, rng, today, midnights, page, srv, outFile>>

ActivityBreakdown ==
    /\ pc = "activity"
    /\ \E o \in BOOLEAN :
          /\ InvokeSqlQuery("client", "actData", o)
          /\ LET rows == tables.client.actData
             IN  sv' = IF o /\ Len(rows) > 0
                          /\ FirstNull(<<rows[1].Last24h, rows[1].Last48h, rows[1].Last7d,
                                         rows[1].Over30d>>, 1) > 4
                       THEN [sv EXCEPT !.activityBreakdown =
                               [last24h |-> rows[1].Last24h[1], last48h |-> rows[1].Last48h[1],
                                last7d |-> rows[1].Last7d[1], over30d |-> rows[1].Over30d[1]]]
                       ELSE sv
    /\ pc' = "clientRecord"
    /\ UNCHANGED <<params, tables, outage, rng, today, midnights, page, srv, outFile>>

\* $clientHealth.
ClientHealthRecord ==
    /\ pc = "clientRecord"
    /\ sv' = [sv EXCEPT !.clientHealth =
                [totalDevices |-> sv.total, activeClients |-> sv.active,
                 healthyClients |-> sv.healthy, unhealthyClients |-> sv.unhealthy,
                 inactiveClients |-> sv.inactive, clientHealthPercent |-> sv.healthPct,
                 remediationSuccess |-> 0, remediationFailed |-> 0, remediationTotal |-> 0,
                 healthTrend |-> sv.healthTrend, topIssues |-> <<>>,
                 osBuildDistribution |-> sv.osArray,
                 activityBreakdown |-> sv.activityBreakdown]]
    /\ pc' = "content"
    /\ UNCHANGED <<params, tables, outage, faults, rng, today, midnights, page, srv, attempts, outFile>>

(***************************************************************************)
(* 3. Content distribution.                                                *)
(***************************************************************************)
ContentDefaults ==
    /\ pc = "content"
    /\ sv' = [sv EXCEPT !.contentDistribution =
                [totalDPs |-> 0, healthyDPs |-> 0, warningDPs |-> 0, errorDPs |-> 0,
                 totalPackages |-> 0, distributedSuccess |-> 0, distributedFailed |-> 0,
                 distributedInProgress |-> 0, totalContentSizeGB |-> 0, dpGroups |-> <<>>,
                 failedPackages |-> <<>>, contentTypeBreakdown |-> <<>>,
                 distributionTrend |-> <<>>]]
    /\ pc' = "dpData"
    /\ UNCHANGED <<params, tables, outage, faults, rng, today, midnights, page, srv, attempts, outFile>>

DpData ==
    /\ pc = "dpData"
    /\ \E o \in BOOLEAN :
          /\ InvokeSqlQuery("content", "dpData", o)
          /\ LET rows == tables.content.dpData
             IN  sv' = IF o /\ Len(rows) > 0
                       THEN LET cells == <<rows[1].TotalDPs, rows[1].HealthyDPs,
                                           rows[1].WarningDPs, rows[1].ErrorDPs>>
                                stop == FirstNull(cells, 1)
                            IN  [sv EXCEPT !.contentDistribution.totalDPs = Cast(@, cells, 1, stop),
                                           !.contentDistribution.healthyDPs = Cast(@, cells, 2, stop),
                                           !.contentDistribution.warningDPs = Cast(@, cells, 3, stop),
                                           !.contentDistribution.errorDPs = Cast(@, cells, 4, stop)]
                       ELSE sv
    /\ pc' = "contentSummary"
    /\ UNCHANGED <<params, tables, outage, rng, today, midnights, page, srv, outFile>>

ContentSummary ==
    /\ pc = "contentSummary"
    /\ \E o \in BOOLEAN :
          /\ InvokeSqlQuery("content", "contentSummary", o)
          /\ LET rows == tables.content.contentSummary
             IN  sv' = IF o /\ Len(rows) > 0
                       THEN LET cells == <<rows[1].TotalPackages, rows[1].DistributedSuccess,
                                           rows[1].DistributedFailed, rows[1].DistributedInProgress>>
                                stop == FirstNull(cells, 1)
                            IN  [sv EXCEPT !.contentDistribution.totalPackages = Cast(@, cells, 1, stop),
                                           !.contentDistribution.distributedSuccess = Cast(@, cells, 2, stop),
                                           !.contentDistribution.distributedFailed = Cast(@, cells, 3, stop),
                                           !.contentDistribution.distributedInProgress = Cast(@, cells, 4, stop)]
                       ELSE sv
    /\ pc' = "dpGroups"
    /\ UNCHANGED <<params, tables, outage, rng, today, midnights, page, srv, outFile>>

\* TRUE when no cell of any row is NULL: a foreach whose result is assigned after the
\* loop assigns only then.
RECURSIVE NoNull(_)
NoNull(cells) == cells = <<>> \/ (~IsNull(Head(cells)) /\ NoNull(Tail(cells)))

DpGroups ==
    /\ pc = "dpGroups"
    /\ \E o \in BOOLEAN :
          /\ InvokeSqlQuery("content", "dpGroups", o)
          /\ LET rows == tables.content.dpGroups
                 whole == \A k \in 1..Len(rows) :
                             NoNull(<<rows[k].Members, rows[k].Packages, rows[k].Compliance>>)
             IN  sv' = IF o /\ whole
                       THEN [sv EXCEPT !.contentDistribution.dpGroups =
                               [k \in 1..Len(rows) |->
                                  [name |-> rows[k].Name, members |-> rows[k].Members[1],
                                   packages |-> rows[k].Packages[1],
                                   compliance |-> rows[k].Compliance[1]]]]
                       ELSE sv
    /\ pc' = "failedPkgs"
    /\ UNCHANGED <<params, tables, outage, rng, today, midnights, page, srv, outFile>>

\* $typeNames, "Type n" for a type it does not hold.
TypeName(t) ==
    CASE t = 0 -> "Package"
      [] t = 3 -> "Driver Package"
      [] t = 5 -> "Software Update"
      [] t = 257 -> "OS Image"
      [] t = 258 -> "Boot Image"
      [] t = 259 -> "OS Upgrade"
      [] t = 512 -> "Application"
      [] OTHER -> "Type " \o ToString(t)

FailedPackages ==
    /\ pc = "failedPkgs"
    /\ \E o \in BOOLEAN :
          /\ InvokeSqlQuery("content", "failedPkgs", o)
          /\ LET rows == tables.content.failedPkgs
                 whole == \A k \in 1..Len(rows) : NoNull(<<rows[k].Type, rows[k].FailedDPs>>)
             IN  sv' = IF o /\ whole
                       THEN [sv EXCEPT !.contentDistribution.failedPackages =
                               [k \in 1..Len(rows) |->
                                  [name |-> rows[k].Name, packageId |-> rows[k].PackageID,
                                   type |-> TypeName(rows[k].Type[1]),
                                   failedDPs |-> rows[k].FailedDPs[1],
                                   error |-> IF rows[k].Error # "" THEN rows[k].Error
                                             ELSE "Distribution failed"]]]
                       ELSE sv
    /\ pc' = "compliance"
    /\ UNCHANGED <<params, tables, outage, rng, today, midnights, page, srv, outFile>>

(***************************************************************************)
(* 4. Software update compliance.                                          *)
(***************************************************************************)
ComplianceDefaults ==
    /\ pc = "compliance"
    /\ sv' = [sv EXCEPT !.totalManaged = 0, !.compliant = 0, !.compPct = 0, !.scanCov = 0,
                        !.scanDistribution = [within24h |-> 0, within48h |-> 0, within7d |-> 0, over7d |-> 0],
                        !.missingSevData = [critical |-> 0, important |-> 0, moderate |-> 0, low |-> 0, unrated |-> 0],
                        !.topMissingArray = <<>>]
    /\ pc' = "compData"
    /\ UNCHANGED <<params, tables, outage, faults, rng, today, midnights, page, srv, attempts, outFile>>

CompData ==
    /\ pc = "compData"
    /\ \E o \in BOOLEAN :
          /\ InvokeSqlQuery("compliance", "compData", o)
          /\ LET rows == tables.compliance.compData
             IN  sv' = IF o /\ Len(rows) > 0
                       THEN LET cells == <<rows[1].TotalManaged, rows[1].CompliantDevices>>
                                stop == FirstNull(cells, 1)
                                s1 == [sv EXCEPT !.totalManaged = Cast(@, cells, 1, stop),
                                                 !.compliant = Cast(@, cells, 2, stop)]
                            IN  IF stop <= Len(cells) THEN s1
                                ELSE [s1 EXCEPT !.compPct = Percent(s1.compliant, s1.totalManaged)]
                       ELSE sv
    /\ pc' = "missingSev"
    /\ UNCHANGED <<params, tables, outage, rng, today, midnights, page, srv, outFile>>

MissingSeverity ==
    /\ pc = "missingSev"
    /\ \E o \in BOOLEAN :
          /\ InvokeSqlQuery("compliance", "missingSev", o)
          /\ LET rows == tables.compliance.missingSev
             IN  sv' = IF o /\ Len(rows) > 0
                          /\ NoNull(<<rows[1].Critical, rows[1].Important, rows[1].Moderate,
                                      rows[1].Low, rows[1].Unrated>>)
                       THEN [sv EXCEPT !.missingSevData =
                               [critical |-> rows[1].Critical[1], important |-> rows[1].Important[1],
                                moderate |-> rows[1].Moderate[1], low |-> rows[1].Low[1],
                                unrated |-> rows[1].Unrated[1]]]
                       ELSE sv
    /\ pc' = "topMissing"
    /\ UNCHANGED <<params, tables, outage, rng, today, midnights, page, srv, outFile>>

TopMissing ==
    /\ pc = "topMissing"
    /\ \E o \in BOOLEAN :
          /\ InvokeSqlQuery("compliance", "topMissing", o)
          /\ LET rows == tables.compliance.topMissing
                 done == Processed(rows, [k \in 1..Len(rows) |-> rows[k].MissingCount])
             IN  sv' = IF o
                       THEN [sv EXCEPT !.topMissingArray =
                               [k \in 1..Len(done) |->
                                  [title |-> done[k].Title,
                                   severity |-> IF done[k].Severity # "" THEN done[k].Severity
                                                ELSE "Unrated",
                                   missing |-> done[k].MissingCount[1],
                                   released |-> done[k].Released]]]
                       ELSE sv
    /\ pc' = "scanData"
    /\ UNCHANGED <<params, tables, outage, rng, today, midnights, page, srv, outFile>>

\* The scan-status query, then the start of the compliance-trend loop.
ScanData ==
    /\ pc = "scanData"
    /\ \E o \in BOOLEAN :
          /\ InvokeSqlQuery("compliance", "scanData", o)
          /\ LET rows == tables.compliance.scanData
                 s0 == [sv EXCEPT !.compTrend = <<>>, !.i = 6]
             IN  sv' = IF o /\ Len(rows) > 0
                          /\ NoNull(<<rows[1].Within24h, rows[1].Within48h, rows[1].Within7d,
                                      rows[1].Over7d>>)
                       THEN [s0 EXCEPT !.scanDistribution =
                               [within24h |-> rows[1].Within24h[1], within48h |-> rows[1].Within48h[1],
                                within7d |-> rows[1].Within7d[1], over7d |-> rows[1].Over7d[1]],
                                       !.scanCov = Percent(rows[1].Within7d[1], sv.totalManaged)]
                       ELSE s0
    /\ pc' = "compTrend"
    /\ UNCHANGED <<params, tables, outage, rng, today, midnights, page, srv, outFile>>

\* [math]::Max
Max(a, b) == IF a >= b THEN a ELSE b

\* One iteration of the compliance-trend loop.
CompTrendLoop ==
    /\ pc = "compTrend"
    /\ sv.i >= 0
    /\ \E s \in RngNow :
          /\ sv' = [sv EXCEPT !.compTrend =
                        Append(@, [date |-> today - sv.i,
                                   percent |-> Max(0, sv.compPct + 10 * GetRandom(s, -3, 2))]),
                              !.i = @ - 1]
          /\ rng' = <<RngStep(s)>>
    /\ pc' = "compTrend"
    /\ UNCHANGED <<params, tables, outage, faults, today, midnights, page, srv, attempts, outFile>>

CompTrendLast ==
    /\ pc = "compTrend"
    /\ sv.i < 0
    /\ sv' = [sv EXCEPT !.compTrend = PinLast(@, sv.compPct)]
    /\ pc' = "complianceRecord"
    /\ UNCHANGED <<params, tables, outage, faults, rng, today, midnights, page, srv, attempts, outFile>>

\* $softwareUpdateCompliance.
ComplianceRecord ==
    /\ pc = "complianceRecord"
    /\ sv' = [sv EXCEPT !.softwareUpdateCompliance =
                [totalManagedDevices |-> sv.totalManaged, compliantDevices |-> sv.compliant,
                 nonCompliantDevices |-> sv.totalManaged - sv.compliant,
                 compliancePercent |-> sv.compPct, scanCoverage |-> sv.scanCov,
                 lastScanDistribution |-> sv.scanDistribution,
                 missingUpdatesBySeverity |-> sv.missingSevData,
                 topMissingUpdates |-> sv.topMissingArray,
                 complianceTrend |-> sv.compTrend, complianceByCollection |-> <<>>]]
    /\ pc' = "deploy"
    /\ UNCHANGED <<params, tables, outage, faults, rng, today, midnights, page, srv, attempts, outFile>>

(***************************************************************************)
(* 5. Software update deployments.                                         *)
(***************************************************************************)
DeployDefaults ==
    /\ pc = "deploy"
    /\ sv' = [sv EXCEPT !.deployArray = <<>>, !.errArray = <<>>, !.totalPendingRestarts = 0,
                        !.totalInstalled = 0, !.grandTotal = 0, !.successRate = 0,
                        !.activeCount = 0, !.failedCount = 0]
    /\ pc' = "deployments"
    /\ UNCHANGED <<params, tables, outage, faults, rng, today, midnights, page, srv, attempts, outFile>>

\* The casts of one deployment row in the order they run: Installed, Total and
\* PendingRestart before the totals are updated, the others while the entry is built.
RowCasts(row) ==
    <<row.Installed, row.Total, row.PendingRestart, row.Downloading, row.Waiting, row.Failed>>

\* The foreach over the deployment rows from row k on; acc holds deployArray, the three
\* totals and whether a cast has thrown.
RECURSIVE DeployLoop(_, _, _)
DeployLoop(rows, k, acc) ==
    IF k > Len(rows) THEN acc
    ELSE LET row  == rows[k]
             stop == FirstNull(RowCasts(row), 1)
         IN  IF stop <= 3 THEN [acc EXCEPT !.thrown = TRUE]
             ELSE LET a1 == [acc EXCEPT !.totalPendingRestarts = @ + row.PendingRestart[1],
                                        !.totalInstalled = @ + row.Installed[1],
                                        !.grandTotal = @ + row.Total[1]]
                  IN  IF stop <= 6 THEN [a1 EXCEPT !.thrown = TRUE]
                      ELSE DeployLoop(rows, k + 1,
                             [a1 EXCEPT !.deployArray = Append(@,
                                [name |-> row.Name, collection |-> row.CollectionName,
                                 total |-> row.Total[1], installed |-> row.Installed[1],
                                 downloading |-> row.Downloading[1], waiting |-> row.Waiting[1],
                                 failed |-> row.Failed[1], pendingRestart |-> row.PendingRestart[1],
                                 status |-> row.Status, deadline |-> row.Deadline])])

\* Keys of one $deployArray entry.
DeployEntryKeys == 10

\* ($deployArray | Where-Object { $_.status -eq st }).Count: the pipeline yields nothing,
\* the one matching hashtable, or an array of them, and Count is read off that value.
WhereCount(arr, st) ==
    LET n == Cardinality({k \in 1..Len(arr) : arr[k].status = st})
    IN  IF n = 1 THEN DeployEntryKeys ELSE n

Deployments ==
    /\ pc = "deployments"
    /\ \E o \in BOOLEAN :
          /\ InvokeSqlQuery("deploy", "deployments", o)
          /\ \E acc \in {DeployLoop(tables.deploy.deployments, 1,
                              [deployArray |-> sv.deployArray,
                               totalPendingRestarts |-> sv.totalPendingRestarts,
                               totalInstalled |-> sv.totalInstalled,
                               grandTotal |-> sv.grandTotal, thrown |-> FALSE])} :
             \E s1 \in {[sv EXCEPT !.deployArray = acc.deployArray,
                                   !.totalPendingRestarts = acc.totalPendingRestarts,
                                   !.totalInstalled = acc.totalInstalled,
                                   !.grandTotal = acc.grandTotal]} :
                 sv' = IF ~o THEN sv
                       ELSE IF acc.thrown THEN s1
                       ELSE [s1 EXCEPT !.successRate = Percent(s1.totalInstalled, s1.grandTotal),
                                       !.activeCount = WhereCount(s1.deployArray, "active"),
                                       !.failedCount = WhereCount(s1.deployArray, "warning")]
    /\ pc' = "errCodes"
    /\ UNCHANGED <<params, tables, outage, rng, today, midnights, page, srv, outFile>>

\* ([int]$n).ToString("X8") with the "0x" prefix, for 0 <= n < 16^8.
RECURSIVE Hex(_, _)
Hex(n, width) ==
    IF width = 0 THEN ""
    ELSE Hex(n \div 16, width - 1) \o SubSeq("0123456789ABCDEF", (n % 16) + 1, (n % 16) + 1)

ErrorCodes ==
    /\ pc = "errCodes"
    /\ \E o \in BOOLEAN :
          /\ InvokeSqlQuery("deploy", "errCodes", o)
          /\ LET rows == tables.deploy.errCodes
                 done == SubSeq(rows, 1,
                           FirstNull([k \in 1..Len(rows) |->
                              IF NoNull(<<rows[k].Code, rows[k].Count>>) THEN Val(0) ELSE Null], 1) - 1)
             IN  sv' = IF o
                       THEN [sv EXCEPT !.errArray =
                               [k \in 1..Len(done) |->
                                  [code |-> "0x" \o Hex(done[k].Code[1], 8),
                                   description |-> done[k].Description,
                                   count |-> done[k].Count[1]]]]
                       ELSE sv
    /\ pc' = "deployRecord"
    /\ UNCHANGED <<params, tables, outage, rng, today, midnights, page, srv, outFile>>

\* The record built with the installed total in pendingRestarts: a faulty variant of
\* DeployRecord.
DeployRecord_InstalledAsPending ==
    /\ pc = "deployRecord"
    /\ sv' = [sv EXCEPT !.softwareUpdateDeployment =
                [activeDeployments |-> sv.activeCount, completedDeployments |-> 0,
                 failedDeployments |-> sv.failedCount, deployments |-> sv.deployArray,
                 errorCodeBreakdown |-> sv.errArray, pendingRestarts |-> sv.totalInstalled,
                 deploymentSuccessRate |-> sv.successRate]]
    /\ pc' = "edge"
    /\ UNCHANGED <<params, tables, outage, faults, rng, today, midnights, page, srv, attempts, outFile>>

\* $softwareUpdateDeployment.
DeployRecord ==
    /\ pc = "deployRecord"
    /\ sv' = [sv EXCEPT !.softwareUpdateDeployment =
                [activeDeployments |-> sv.activeCount, completedDeployments |-> 0,
                 failedDeployments |-> sv.failedCount, deployments |-> sv.deployArray,
                 errorCodeBreakdown |-> sv.errArray, pendingRestarts |-> sv.totalPendingRestarts,
                 deploymentSuccessRate |-> sv.successRate]]
    /\ pc' = "edge"
    /\ UNCHANGED <<params, tables, outage, faults, rng, today, midnights, page, srv, attempts, outFile>>

(***************************************************************************)
(* 6. Edge management.                                                     *)
(***************************************************************************)
EdgeDefaults ==
    /\ pc = "edge"
    /\ sv' = [sv EXCEPT !.edgeCount = 0, !.totalBrowserDevices = sv.active,
                        !.defaultBrowser = [edge |-> 0, chrome |-> 0, firefox |-> 0, other |-> 0],
                        !.edgeVersions = <<>>]
    /\ pc' = "edgeInstalled"
    /\ UNCHANGED <<params, tables, outage, faults, rng, today, midnights, page, srv, attempts, outFile>>

\* The Edge-count query outside any try: a faulty variant of EdgeInstalled in which a
\* failing query ends the script.
EdgeInstalled_NoCatch ==
    /\ pc = "edgeInstalled"
    /\ \E o \in BOOLEAN :
          /\ InvokeSqlQuery("edge", "edgeInstalled", o)
          /\ LET rows == tables.edge.edgeInstalled
             IN  sv' = IF o /\ Len(rows) > 0 /\ ~IsNull(rows[1].EdgeCount)
                       THEN [sv EXCEPT !.edgeCount = rows[1].EdgeCount[1]]
                       ELSE sv
          /\ pc' = IF o THEN "dbData" ELSE "failed"
    /\ UNCHANGED <<params, tables, outage, rng, today, midnights, page, srv, outFile>>

EdgeInstalled ==
    /\ pc = "edgeInstalled"
    /\ \E o \in BOOLEAN :
          /\ InvokeSqlQuery("edge", "edgeInstalled", o)
          /\ LET rows == tables.edge.edgeInstalled
             IN  sv' = IF o /\ Len(rows) > 0 /\ ~IsNull(rows[1].EdgeCount)
                       THEN [sv EXCEPT !.edgeCount = rows[1].EdgeCount[1]]
                       ELSE sv
    /\ pc' = "dbData"
    /\ UNCHANGED <<params, tables, outage, rng, today, midnights, page, srv, outFile>>

\* $defaultBrowser[$row.Browser] = [int]$row.Count for the rows from k on.
RECURSIVE BrowserLoop(_, _, _)
BrowserLoop(rows, k, acc) ==
    IF k > Len(rows) THEN acc
    ELSE IF IsNull(rows[k].Count) THEN [acc EXCEPT !.thrown = TRUE]
    ELSE BrowserLoop(rows, k + 1, [acc EXCEPT !.stats[rows[k].Browser] = rows[k].Count[1]])

\* The estimate the catch block makes from the Edge count: 72 / 20 / 5 / 3 percent.
BrowserEstimate(stats, edgeCount) ==
    IF edgeCount > 0
    THEN [edge |-> RoundHalfEven(edgeCount * 72, 100), chrome |-> RoundHalfEven(edgeCount * 20, 100),
          firefox |-> RoundHalfEven(edgeCount * 5, 100), other |-> RoundHalfEven(edgeCount * 3, 100)]
    ELSE stats

DefaultBrowser ==
    /\ pc = "dbData"
    /\ \E o \in BOOLEAN :
          /\ InvokeSqlQuery("edge", "dbData", o)
          /\ LET acc == BrowserLoop(tables.edge.dbData, 1, [stats |-> sv.defaultBrowser, thrown |-> FALSE])
             IN  sv' = [sv EXCEPT !.defaultBrowser =
                          IF o /\ ~acc.thrown THEN acc.stats
                          ELSE IF o THEN BrowserEstimate(acc.stats, sv.edgeCount)
                          ELSE BrowserEstimate(@, sv.edgeCount)]
    /\ pc' = "verData"
    /\ UNCHANGED <<params, tables, outage, rng, today, midnights, page, srv, outFile>>

EdgeVersions ==
    /\ pc = "verData"
    /\ \E o \in BOOLEAN :
          /\ InvokeSqlQuery("edge", "verData", o)
          /\ LET rows == tables.edge.verData
                 done == Processed(rows, [k \in 1..Len(rows) |-> rows[k].Count])
             IN  sv' = IF o
                       THEN [sv EXCEPT !.edgeVersions =
                               [k \in 1..Len(done) |->
                                  [version |-> done[k].Version, channel |-> "Stable",
                                   count |-> done[k].Count[1],
                                   percent |-> Percent(done[k].Count[1], sv.edgeCount),
                                   status |-> "current"]]]
                       ELSE sv
    /\ pc' = "edgeRecord"
    /\ UNCHANGED <<params, tables, outage, rng, today, midnights, page, srv, outFile>>

\* $edgePen and $edgeManagement.
EdgeRecord ==
    /\ pc = "edgeRecord"
    /\ LET pen == Percent(sv.edgeCount, sv.totalBrowserDevices)
       IN  sv' = [sv EXCEPT !.edgePen = pen,
                            !.edgeManagement =
                               [totalEdgeInstalled |-> sv.edgeCount,
                                totalDevicesWithBrowser |-> sv.totalBrowserDevices,
                                edgePenetration |-> pen, defaultBrowserStats |-> sv.defaultBrowser,
                                edgeVersionDistribution |-> sv.edgeVersions,
                                browserUsageLast30d |-> [edge |-> 0, chrome |-> 0, firefox |-> 0, other |-> 0],
                                vulnerableEdgeClients |-> 0, vulnerablePercent |-> 0]]
    /\ pc' = "security"
    /\ UNCHANGED <<params, tables, outage, faults, rng, today, midnights, page, srv, attempts, outFile>>

(***************************************************************************)
(* 7. Security overview.                                                   *)
(***************************************************************************)
\* A distribution-point score of 0 when there is no distribution point: a faulty
\* variant of DpScore.
DpScore_ZeroWhenNone(cd) ==
    IF cd.totalDPs > 0 THEN [n |-> cd.healthyDPs * 100, d |-> cd.totalDPs]
    ELSE [n |-> 0, d |-> 1]

\* The healthy-DP percent fed to the score, as the fraction n/d (not rounded).
DpScore(cd) ==
    IF cd.totalDPs > 0 THEN [n |-> cd.healthyDPs * 100, d |-> cd.totalDPs]
    ELSE [n |-> 100, d |-> 1]

\* $scores: the five domain values as fractions (tenths over 10 for rounded percents).
Scores(s) ==
    <<[n |-> s.healthPct, d |-> 10],
      DpScore(s.contentDistribution),
      [n |-> s.compPct, d |-> 10],
      [n |-> s.successRate, d |-> 10],
      [n |-> 1000 - s.edgeManagement.vulnerablePercent, d |-> 10]>>

\* Measure-Object -Average: the sum of the fractions, taken over the product of their
\* denominators, over their count.
RECURSIVE ProdDen(_)
ProdDen(fs) == IF fs = <<>> THEN 1 ELSE Head(fs).d * ProdDen(Tail(fs))
RECURSIVE SumNum(_, _)
SumNum(fs, den) ==
    IF fs = <<>> THEN 0 ELSE Head(fs).n * (den \div Head(fs).d) + SumNum(Tail(fs), den)
Average(fs) == [n |-> SumNum(fs, ProdDen(fs)), d |-> ProdDen(fs) * Len(fs)]

\* The average cut to its integer part: a faulty variant of OverallScore.
OverallScore_Truncated(fs) == Average(fs).n \div Average(fs).d

\* $overallScore
OverallScore(fs) == RoundHalfEven(Average(fs).n, Average(fs).d)

\* The tiers with a strict upper threshold: a faulty variant of RiskLevel.
RiskLevel_StrictThreshold(score) ==
    IF score > 85 THEN "low" ELSE IF score >= 65 THEN "medium" ELSE "high"

\* $riskLevel
RiskLevel(score) ==
    IF score >= 85 THEN "low" ELSE IF score >= 65 THEN "medium" ELSE "high"

\* Findings without the pending-restart rule: a faulty variant of Findings.
Findings_NoRestartRule(inact, over7d, distFailed, pendRestarts) ==
    (IF inact > 0
     THEN <<[finding |-> ToString(inact) \o " devices inactive for 30+ days",
             severity |-> "medium", domain |-> "clients"]>>
     ELSE <<>>)
    \o (IF over7d > 0
        THEN <<[finding |-> ToString(over7d) \o " devices haven't scanned for updates in 7+ days",
                severity |-> "high", domain |-> "updates"]>>
        ELSE <<>>)
    \o (IF distFailed > 0
        THEN <<[finding |-> ToString(distFailed) \o " content distributions failed",
                severity |-> "medium", domain |-> "content"]>>
        ELSE <<>>)

\* Findings with the stale-scan rule evaluated first: a faulty variant of Findings.
Findings_UpdatesFirst(inact, over7d, distFailed, pendRestarts) ==
    (IF over7d > 0
     THEN <<[finding |-> ToString(over7d) \o " devices haven't scanned for updates in 7+ days",
             severity |-> "high", domain |-> "updates"]>>
     ELSE <<>>)
    \o (IF inact > 0
        THEN <<[finding |-> ToString(inact) \o " devices inactive for 30+ days",
                severity |-> "medium", domain |-> "clients"]>>
        ELSE <<>>)
    \o (IF distFailed > 0
        THEN <<[finding |-> ToString(distFailed) \o " content distributions failed",
                severity |-> "medium", domain |-> "content"]>>
        ELSE <<>>)
    \o (IF pendRestarts > 0
        THEN <<[finding |-> ToString(pendRestarts) \o " devices pending restart after update installation",
                severity |-> "medium", domain |-> "deployments"]>>
        ELSE <<>>)

\* $findings: the four rules in order.
Findings(inact, over7d, distFailed, pendRestarts) ==
    (IF inact > 0
     THEN <<[finding |-> ToString(inact) \o " devices inactive for 30+ days",
             severity |-> "medium", domain |-> "clients"]>>
     ELSE <<>>)
    \o (IF over7d > 0
        THEN <<[finding |-> ToString(over7d) \o " devices haven't scanned for updates in 7+ days",
                severity |-> "high", domain |-> "updates"]>>
        ELSE <<>>)
    \o (IF distFailed > 0
        THEN <<[finding |-> ToString(distFailed) \o " content distributions failed",
                severity |-> "medium", domain |-> "content"]>>
        ELSE <<>>)
    \o (IF pendRestarts > 0
        THEN <<[finding |-> ToString(pendRestarts) \o " devices pending restart after update installation",
                severity |-> "medium", domain |-> "deployments"]>>
        ELSE <<>>)

SecurityOverview ==
    /\ pc = "security"
    /\ \E sc \in {Scores(sv)} :
       \E os \in {OverallScore(sc)} :
       \E fi \in {Findings(sv.inactive, sv.scanDistribution.over7d,
                            sv.contentDistribution.distributedFailed,
                            sv.totalPendingRestarts)} :
           sv' = [sv EXCEPT !.scores = sc, !.overallScore = os, !.riskLevel = RiskLevel(os),
                            !.findings = fi,
                            !.securityOverview =
                               [overallHealthScore |-> os, riskLevel |-> RiskLevel(os),
                                criticalFindings |-> fi]]
    /\ pc' = "output"
    /\ UNCHANGED <<params, tables, outage, faults, rng, today, midnights, page, srv, attempts, outFile>>

(***************************************************************************)
(* 8. Output.                                                              *)
(***************************************************************************)
\* An output step placed before the security overview: a faulty variant of OutFileOpen.
OutFileOpen_BeforeSecurity ==
    /\ pc = "security"
    /\ sv' = [sv EXCEPT !.dashboard =
                [lastRefresh |-> today, environment |-> sv.environment,
                 clientHealth |-> sv.clientHealth,
                 contentDistribution |-> sv.contentDistribution,
                 softwareUpdateCompliance |-> sv.softwareUpdateCompliance,
                 softwareUpdateDeployment |-> sv.softwareUpdateDeployment,
                 edgeManagement |-> sv.edgeManagement,
                 securityOverview |-> sv.securityOverview]]
    /\ outFile' = [kind |-> "partial", doc |-> <<>>]
    /\ pc' = "writing"
    /\ UNCHANGED <<params, tables, outage, faults, rng, today, midnights, page, srv, attempts>>

\* $dashboard, then Out-File -Force opens $OutputPath: what the path held is gone.
OutFileOpen ==
    /\ pc = "output"
    /\ sv' = [sv EXCEPT !.dashboard =
                [lastRefresh |-> today, environment |-> sv.environment,
                 clientHealth |-> sv.clientHealth,
                 contentDistribution |-> sv.contentDistribution,
                 softwareUpdateCompliance |-> sv.softwareUpdateCompliance,
                 softwareUpdateDeployment |-> sv.softwareUpdateDeployment,
                 edgeManagement |-> sv.edgeManagement,
                 securityOverview |-> sv.securityOverview]]
    /\ outFile' = [kind |-> "partial", doc |-> <<>>]
    /\ pc' = "writing"
    /\ UNCHANGED <<params, tables, outage, faults, rng, today, midnights, page, srv, attempts>>

\* The serialized document reaches the file and the script ends.
OutFileWrite ==
    /\ pc = "writing"
    /\ outFile' = [kind |-> "snapshot", doc |-> sv.dashboard]
    /\ pc' = "done"
    /\ UNCHANGED <<params, tables, outage, faults, rng, today, midnights, page, srv, attempts, sv>>

(***************************************************************************)
(* The dashboard (app.js). Percents are fractions n/d in tenths of a       *)
(* percent; the thresholds are in tenths as well.                          *)
(***************************************************************************)
COLORS == [green |-> "#00e676", amber |-> "#ffab40", red |-> "#ff5252"]

\* The default thresholds of ragClass and ragColor, and the pair the overall ring passes.
DefaultThresholds == <<900, 750>>
\* The ring coloured with the thresholds of the cards: a faulty variant of RingThresholds.
RingThresholds_Default == <<900, 750>>

RingThresholds == <<850, 650>>

\* A number of the document as a fraction.
Num(v) == [n |-> v, d |-> 1]

\* val >= t, for a fraction val.
AtLeast(val, t) == val.n >= t * val.d

\* ragClass with strict comparisons: a value on a threshold falls into the lower band.
ragClass_Strict(val, thresholds) ==
    IF val.n > thresholds[1] * val.d THEN "rag-green"
    ELSE IF val.n > thresholds[2] * val.d THEN "rag-amber"
    ELSE "rag-red"

ragClass(val, thresholds) ==
    IF AtLeast(val, thresholds[1]) THEN "rag-green"
    ELSE IF AtLeast(val, thresholds[2]) THEN "rag-amber"
    ELSE "rag-red"

ragColor(val, thresholds) ==
    IF AtLeast(val, thresholds[1]) THEN COLORS.green
    ELSE IF AtLeast(val, thresholds[2]) THEN COLORS.amber
    ELSE COLORS.red

\* ragClass(...).replace('rag-', 'progress-')
ProgressClass(cls) == "progress-" \o SubSeq(cls, 5, Len(cls))

\* +(num / den * 100).toFixed(1), in tenths: the nearest tenth, a tie going up.
ToFixed1(num, den) == (2000 * num + den) \div (2 * den)

\* riskMap[riskLevel] || 'pill-amber'
RiskPill(level) ==
    CASE level = "low" -> "pill-green"
      [] level = "medium" -> "pill-amber"
      [] level \in {"high", "critical"} -> "pill-red"
      [] OTHER -> "pill-amber"

\* The values of the five score cards, in card order.
CardValues(doc) ==
    <<Num(doc.clientHealth.clientHealthPercent),
      Num(IF doc.contentDistribution.totalPackages > 0
          THEN ToFixed1(doc.contentDistribution.distributedSuccess,
                        doc.contentDistribution.totalPackages)
          ELSE 0),
      Num(doc.softwareUpdateCompliance.compliancePercent),
      Num(doc.softwareUpdateDeployment.deploymentSuccessRate),
      Num(1000 - doc.edgeManagement.vulnerablePercent)>>

\* dpHealthPct of the content section (not rounded).
DpHealthPct(cd) ==
    IF cd.totalDPs > 0 THEN [n |-> cd.healthyDPs * 1000, d |-> cd.totalDPs] ELSE Num(0)

\* The page the script builds from the document DATA.
Rendered(DATA) ==
    [loaded |-> TRUE,
     overallScore |-> DATA.securityOverview.overallHealthScore,
     ringStroke |-> ragColor(Num(10 * DATA.securityOverview.overallHealthScore), RingThresholds),
     riskPill |-> RiskPill(DATA.securityOverview.riskLevel),
     cards |-> [i \in 1..5 |-> [value |-> CardValues(DATA)[i],
                                rag |-> ragClass(CardValues(DATA)[i], DefaultThresholds)]],
     clientColor |-> ragColor(Num(DATA.clientHealth.clientHealthPercent), DefaultThresholds),
     clientBar |-> ProgressClass(ragClass(Num(DATA.clientHealth.clientHealthPercent),
                                          DefaultThresholds)),
     dpColor |-> ragColor(DpHealthPct(DATA.contentDistribution), DefaultThresholds),
     dpGroupBars |-> [i \in 1..Len(DATA.contentDistribution.dpGroups) |->
                        ProgressClass(ragClass(Num(DATA.contentDistribution.dpGroups[i].compliance),
                                               DefaultThresholds))],
     compColor |-> ragColor(Num(DATA.softwareUpdateCompliance.compliancePercent), <<900, 750>>),
     compBar |-> ProgressClass(ragClass(Num(DATA.softwareUpdateCompliance.compliancePercent),
                                        <<900, 750>>)),
     edgeColor |-> ragColor(Num(DATA.edgeManagement.edgePenetration), DefaultThresholds)]

\* The dashboard is opened: it fetches data/mock_data.json and renders it, or shows
\* "Failed to load data" when the file does not parse.
Render ==
    /\ page = <<>>
    /\ \/ /\ outFile.kind = "snapshot"
          /\ page' = Rendered(outFile.doc)
       \/ /\ outFile.kind = "partial"
          /\ page' = [loaded |-> FALSE]
    /\ UNCHANGED <<pc, params, tables, outage, faults, rng, today, midnights, attempts, sv,
                   outFile, srv>>

\* Midnight passes: Get-Date reads the next calendar day from now on. The clock is read
\* by the iterations of the two trend loops and when $dashboard is built; a midnight at
\* any other moment is the same as one just before the next read.
Midnight ==
    /\ midnights > 0
    /\ \/ pc \in {"healthTrend", "compTrend"} /\ sv.i >= 0
       \/ pc = "output"
    /\ today' = today + 1
    /\ midnights' = midnights - 1
    /\ UNCHANGED <<pc, params, tables, outage, faults, rng, attempts, sv, outFile, page, srv>>

\* The statements of the script.
Step ==
    \/ SampleData \/ ValidateParams
    \/ SiteAttempt1 \/ SiteAttempt2 \/ SiteAttempt3 \/ SiteAttempt4 \/ BuildEnvironment
    \/ ClientDefaults \/ ClientCountsJoin \/ ClientCountsFallback \/ ClientNormalize
    \/ HealthTrendLoop \/ HealthTrendLast \/ OsDistribution \/ ActivityBreakdown
    \/ ClientHealthRecord
    \/ ContentDefaults \/ DpData \/ ContentSummary \/ DpGroups \/ FailedPackages
    \/ ComplianceDefaults \/ CompData \/ MissingSeverity \/ TopMissing \/ ScanData
    \/ CompTrendLoop \/ CompTrendLast \/ ComplianceRecord
    \/ DeployDefaults \/ Deployments \/ ErrorCodes \/ DeployRecord
    \/ EdgeDefaults \/ EdgeInstalled \/ DefaultBrowser \/ EdgeVersions \/ EdgeRecord
    \/ SecurityOverview \/ OutFileOpen \/ OutFileWrite

Next == Step \/ Midnight \/ Render

Spec == Init /\ [][Next]_vars

(***************************************************************************)
(* The dashboard over any document of the schema.                          *)
(***************************************************************************)
\* The collector before its first statement, over the populated database.
CollectorIdle ==
    /\ params = LiveParams /\ tables = PopulatedDb /\ outage = {}
    /\ faults = 0 /\ rng = <<>> /\ today = 0 /\ midnights = 0
    /\ attempts = <<>> /\ sv = InitVars

\* A document with overall score s and every percent the page colours equal to p tenths.
DashDoc(s, p) ==
    [securityOverview |-> [overallHealthScore |-> s, riskLevel |-> RiskLevel(s),
                           criticalFindings |-> <<>>],
     clientHealth |-> [clientHealthPercent |-> p],
     contentDistribution |-> [totalPackages |-> 1000, distributedSuccess |-> p,
                              totalDPs |-> 1000, healthyDPs |-> p,
                              dpGroups |-> <<[compliance |-> p]>>],
     softwareUpdateCompliance |-> [compliancePercent |-> p],
     softwareUpdateDeployment |-> [deploymentSuccessRate |-> p],
     edgeManagement |-> [vulnerablePercent |-> 1000 - p, edgePenetration |-> p]]

\* Every score with one percent, and every percent (in tenths) with one score.
DashDocs == {DashDoc(s, 0) : s \in 0..100} \cup {DashDoc(0, p) : p \in 0..1000}

DashInit ==
    /\ CollectorIdle
    /\ pc = "done"
    /\ outFile \in {[kind |-> "snapshot", doc |-> d] : d \in DashDocs}
                   \cup {[kind |-> "partial", doc |-> <<>>]}
    /\ page = <<>>
    /\ srv = ServerStart

DashSpec == DashInit /\ [][Render]_vars

(***************************************************************************)
(* The file server (serve.ps1).                                            *)
(***************************************************************************)
\* Requests the server accepts over its life.
MaxRequests == 3

\* The files under $root, and the paths clients ask for: the root, two files, a
\* directory and a path that names nothing.
Files == {"/index.html", "/app.js", "/data/mock_data.json"}
RequestPaths == {"/", "/index.html", "/data/mock_data.json", "/data", "/missing.css"}

\* [System.IO.File]::ReadAllBytes of a file.
FileBytes(f) == "bytes of " \o f

\* if ($path -eq '/') { $path = '/index.html' }
LocalPath(req) == IF req = "/" THEN "/index.html" ELSE req

\* A client connects; the listener queues the request until GetContext takes it.
Arrive ==
    /\ Len(srv.accepted) + Len(srv.queue) < MaxRequests
    /\ \E r \in RequestPaths : srv' = [srv EXCEPT !.queue = Append(@, r)]
    /\ UNCHANGED <<pc, params, tables, outage, faults, rng, today, midnights, attempts, sv,
                   outFile, page>>

\* $listener.GetContext() returns the next pending request.
GetContext ==
    /\ srv.at = "accept"
    /\ srv.queue # <<>>
    /\ srv' = [srv EXCEPT !.at = "handle", !.req = Head(srv.queue), !.queue = Tail(@),
                          !.accepted = Append(@, Head(srv.queue))]
    /\ UNCHANGED <<pc, params, tables, outage, faults, rng, today, midnights, attempts, sv,
                   outFile, page>>

\* The body of the loop: 200 with $bytes for an existing file, 404 otherwise, then the
\* output stream is closed. ReadAllBytes may throw (the file is locked or gone); the
\* script has no try and no 'Stop' preference, so it goes on with what $bytes held, and
\* Write throws on a $bytes that was never assigned, leaving the body empty.
Respond ==
    /\ srv.at = "handle"
    /\ LET path == LocalPath(srv.req)
       IN  IF path \in Files
           THEN \E read \in {TRUE} \cup {FALSE : x \in {f \in {srv.readFaults} : f < MaxFaults}} :
                   LET bytes == IF read THEN <<FileBytes(path)>> ELSE srv.bytes
                   IN  srv' = [srv EXCEPT !.at = "accept", !.bytes = bytes,
                                          !.readFaults = IF read THEN @ ELSE @ + 1,
                                          !.log = Append(@, [req |-> srv.req, status |-> 200,
                                                             body |-> bytes])]
           ELSE srv' = [srv EXCEPT !.at = "accept",
                                   !.log = Append(@, [req |-> srv.req, status |-> 404,
                                                      body |-> <<"404 Not Found: " \o path>>])]
    /\ UNCHANGED <<pc, params, tables, outage, faults, rng, today, midnights, attempts, sv,
                   outFile, page>>

ServeInit ==
    /\ CollectorIdle
    /\ pc = "start"
    /\ outFile = [kind |-> "old", doc |-> <<>>]
    /\ page = <<>>
    /\ srv = ServerStart

ServeNext == Arrive \/ GetContext \/ Respond

ServeSpec == ServeInit /\ [][ServeNext]_vars

(***************************************************************************)
(* Properties.                                                             *)
(***************************************************************************)
\* The attempts of a fallback chain, in the order they were made.
ChainLog(chain) == SelectSeq(attempts, LAMBDA a : \E k \in 1..Len(chain) : chain[k] = a.q)
SiteViews == <<"v_Site", "v_Identification", "SC_SiteDefinition">>
ClientVariants == <<"clientCountsJoin", "v_R_System">>
SiteLog == ChainLog(SiteViews)
ClientLog == ChainLog(ClientVariants)

\* The attempts follow the chain's order from its first variant on.
InOrder(log, chain) ==
    /\ Len(log) <= Len(chain)
    /\ \A k \in 1..Len(log) : log[k].q = chain[k]

\* What a site view returns, under one set of field names; <<>> when it holds no row.
SiteAnswer(q) ==
    LET t == tables.site
    IN  CASE q = "v_Site" ->
               IF t.siteInfo = <<>> THEN <<>>
               ELSE [code |-> t.siteInfo[1].SiteCode, name |-> t.siteInfo[1].SiteName,
                     server |-> t.siteInfo[1].ServerName, version |-> t.siteInfo[1].SiteVersion]
          [] q = "v_Identification" ->
               IF t.idInfo = <<>> THEN <<>>
               ELSE [code |-> t.idInfo[1].ThisSiteCode, name |-> t.idInfo[1].ThisSiteName,
                     server |-> t.idInfo[1].ParentSiteServer, version |-> ""]
          [] OTHER ->
               IF t.scInfo = <<>> THEN <<>>
               ELSE [code |-> t.scInfo[1].SiteCode, name |-> t.scInfo[1].SiteName,
                     server |-> t.scInfo[1].ServerName, version |-> ""]

\* The attempt executed and returned a row that names a site.
Answered(a) == a.ok /\ SiteAnswer(a.q) # <<>> /\ SiteAnswer(a.q).code # ""

\* What a client-count variant returns.
ClientAnswer(q) ==
    IF q = "clientCountsJoin" THEN tables.client.clientCountsJoin[1]
    ELSE tables.client.clientCountsSys[1]

\* A count cell as the record carries it: a NULL aggregate leaves the default 0.
IntOrZero(c) == IF IsNull(c) THEN 0 ELSE c[1]

SiteChainOver == pc \notin {"start", "site1", "site2", "site3"}
ClientChainOver == pc \notin {"start", "site1", "site2", "site3", "site4", "environment",
                              "client", "clientJoin", "clientFallback", "failed"}

\* C1 as stated: in the site-info chain and in the client-count chain the variants are
\* attempted strictly in the listed order, and once a variant has executed successfully
\* no later variant of the chain is attempted.
C1_FirstSuccessEndsChain ==
    /\ InOrder(SiteLog, SiteViews)
    /\ InOrder(ClientLog, ClientVariants)
    /\ \A k \in 1..(Len(SiteLog) - 1) : ~SiteLog[k].ok
    /\ \A k \in 1..(Len(ClientLog) - 1) : ~ClientLog[k].ok

\* C1, amended: the variants of a chain are attempted strictly in the listed order, the
\* next one exactly when the previous one failed or, for a site view, returned no row
\* naming a site. A site view that answers, and a client-count variant that executes,
\* ends its chain, and the record carries the values it returned: site code and name,
\* the site server unless it is empty (then the server name), the version only from
\* v_Site; the five client counts with a NULL read as 0. When no variant qualifies the
\* site code comes from the database name and the client counts stay 0.
C1_FallbackOrder ==
    LET sl == SiteLog
        cl == ClientLog
    IN
    /\ InOrder(sl, SiteViews)
    /\ InOrder(cl, ClientVariants)
    /\ \A k \in 1..(Len(sl) - 1) : ~Answered(sl[k])
    /\ \A k \in 1..(Len(cl) - 1) : ~cl[k].ok
    /\ SiteChainOver /\ ~params.UseSampleData /\ params.ServerName # "" /\ params.DatabaseName # ""
          => /\ Len(sl) >= 1
             /\ Len(sl) = 3 \/ Answered(sl[Len(sl)])
    /\ ClientChainOver /\ ~params.UseSampleData
          => /\ Len(cl) >= 1
             /\ Len(cl) = 2 \/ cl[Len(cl)].ok
    /\ sv.environment # <<>> =>
          LET last == sl[Len(sl)]
              env  == sv.environment
          IN  IF Answered(last)
              THEN LET r == SiteAnswer(last.q)
                   IN  /\ env.siteCode = r.code
                       /\ env.siteName = r.name
                       /\ env.siteServer = IF r.server # "" THEN r.server ELSE params.ServerName
                       /\ env.siteVersion = r.version
              ELSE /\ env.siteCode = SubSeq(params.DatabaseName, 4, Len(params.DatabaseName))
                   /\ env.siteCode # ""
                   /\ env.siteName = env.siteCode \o " Site"
                   /\ env.siteServer = params.ServerName
                   /\ env.siteVersion = ""
    /\ sv.clientHealth # <<>> =>
          LET last == cl[Len(cl)]
              ch   == sv.clientHealth
              r    == ClientAnswer(last.q)
          IN  IF last.ok
              THEN /\ ch.totalDevices = IntOrZero(r.TotalDevices)
                   /\ ch.healthyClients = IntOrZero(r.HealthyClients)
                   /\ ch.activeClients = IntOrZero(r.ActiveClients)
                   /\ ch.unhealthyClients = IntOrZero(r.UnhealthyClients)
                   /\ ch.inactiveClients = IntOrZero(r.InactiveClients)
              ELSE /\ ch.totalDevices = 0 /\ ch.healthyClients = 0 /\ ch.activeClients = 0
                   /\ ch.unhealthyClients = 0 /\ ch.inactiveClients = 0

\* C1, its case: v_Site failed, v_Identification answered, SC_SiteDefinition was never
\* asked, and the finished run carries the v_Identification values.
C1_SecondVariantUsed ==
    /\ pc = "done"
    /\ Len(SiteLog) = 2
    /\ ~SiteLog[1].ok
    /\ Answered(SiteLog[2])
    /\ outFile.kind = "snapshot"
    /\ outFile.doc.environment.siteCode = tables.site.idInfo[1].ThisSiteCode

\* Both client-count variants were attempted and both failed.
ClientChainFailed ==
    /\ Len(ClientLog) = 2
    /\ ~ClientLog[1].ok
    /\ ~ClientLog[2].ok

\* The queries of the four domains that follow client health.
LaterQueries ==
    {"dpData", "contentSummary", "dpGroups", "failedPkgs",
     "compData", "missingSev", "topMissing", "scanData",
     "deployments", "errCodes", "edgeInstalled", "dbData", "verData"}

Attempted(q) == \E k \in 1..Len(attempts) : attempts[k].q = q

\* C2 as stated: when every variant of the client-count chain fails, the run is not
\* aborted and the client-health record is produced with its default values, counts 0
\* and lists empty.
C2_DefaultRecordOnChainFailure ==
    ClientChainFailed =>
        /\ pc # "failed"
        /\ sv.clientHealth # <<>> =>
              /\ sv.clientHealth.totalDevices = 0
              /\ sv.clientHealth.activeClients = 0
              /\ sv.clientHealth.healthyClients = 0
              /\ sv.clientHealth.unhealthyClients = 0
              /\ sv.clientHealth.inactiveClients = 0
              /\ sv.clientHealth.clientHealthPercent = 0
              /\ sv.clientHealth.healthTrend = <<>>
              /\ sv.clientHealth.osBuildDistribution = <<>>
              /\ sv.clientHealth.topIssues = <<>>

\* C2, amended: when every variant of the client-count chain fails, the run is not
\* aborted; the record is produced with the fields the chain feeds at
\* their defaults (the five counts and the health percent are 0) while the steps that
\* follow in the block still run (a 7-point trend around 0, the OS and activity
\* queries); and every query of the remaining domains is attempted before the
\* snapshot is written.
C2_ChainFailureNonFatal ==
    ClientChainFailed =>
        /\ pc # "failed"
        /\ sv.clientHealth # <<>> =>
              /\ sv.clientHealth.totalDevices = 0
              /\ sv.clientHealth.activeClients = 0
              /\ sv.clientHealth.healthyClients = 0
              /\ sv.clientHealth.unhealthyClients = 0
              /\ sv.clientHealth.inactiveClients = 0
              /\ sv.clientHealth.clientHealthPercent = 0
              /\ Len(sv.clientHealth.healthTrend) = 7
              /\ Attempted("osDist") /\ Attempted("actData")
        /\ pc = "done" =>
              /\ outFile.kind = "snapshot"
              /\ outFile.doc.clientHealth = sv.clientHealth
              /\ \A q \in LaterQueries : Attempted(q)

\* C2, its case: a finished run in which both client-count variants failed, the written
\* client counts are 0 and the content block still read its distribution points.
C2_ChainFailedRunFinished ==
    /\ pc = "done"
    /\ ClientChainFailed
    /\ outFile.kind = "snapshot"
    /\ outFile.doc.clientHealth.totalDevices = 0
    /\ outFile.doc.contentDistribution.totalDPs > 0

\* Every enumerated field of the five domain records and of the security overview.
RecordFields ==
    [clientHealth |-> {"totalDevices", "activeClients", "healthyClients", "unhealthyClients",
                       "inactiveClients", "clientHealthPercent", "remediationSuccess",
                       "remediationFailed", "remediationTotal", "healthTrend", "topIssues",
                       "osBuildDistribution", "activityBreakdown"},
     contentDistribution |-> {"totalDPs", "healthyDPs", "warningDPs", "errorDPs", "totalPackages",
                              "distributedSuccess", "distributedFailed", "distributedInProgress",
                              "totalContentSizeGB", "dpGroups", "failedPackages",
                              "contentTypeBreakdown", "distributionTrend"},
     softwareUpdateCompliance |-> {"totalManagedDevices", "compliantDevices", "nonCompliantDevices",
                                   "compliancePercent", "scanCoverage", "lastScanDistribution",
                                   "missingUpdatesBySeverity", "topMissingUpdates",
                                   "complianceTrend", "complianceByCollection"},
     softwareUpdateDeployment |-> {"activeDeployments", "completedDeployments", "failedDeployments",
                                   "deployments", "errorCodeBreakdown", "pendingRestarts",
                                   "deploymentSuccessRate"},
     edgeManagement |-> {"totalEdgeInstalled", "totalDevicesWithBrowser", "edgePenetration",
                         "defaultBrowserStats", "edgeVersionDistribution", "browserUsageLast30d",
                         "vulnerableEdgeClients", "vulnerablePercent"},
     securityOverview |-> {"overallHealthScore", "riskLevel", "criticalFindings"}]

\* The document holds the five domain records and the security overview, each with all
\* its fields.
Complete(doc) ==
    /\ doc # <<>>
    /\ \A r \in DOMAIN RecordFields : DOMAIN doc[r] = RecordFields[r]

\* A snapshot of this run is in the output file.
Written == pc = "done" /\ outFile.kind = "snapshot"

\* The run is past site info: the domain blocks have begun.
InDomains == sv.environment # <<>>

\* The positions of the script in the order it passes them.
Positions ==
    <<"start", "site1", "site2", "site3", "site4", "environment",
      "client", "clientJoin", "clientFallback", "clientNormalize", "healthTrend", "osDist",
      "activity", "clientRecord",
      "content", "dpData", "contentSummary", "dpGroups", "failedPkgs",
      "compliance", "compData", "missingSev", "topMissing", "scanData", "compTrend",
      "complianceRecord",
      "deploy", "deployments", "errCodes", "deployRecord",
      "edge", "edgeInstalled", "dbData", "verData", "edgeRecord",
      "security", "output", "writing">>

Ended == pc \in {"done", "failed"}

\* A bound on the steps the run still takes: 8 for every position not yet left, and the
\* iterations left inside a trend loop.
StepsLeft ==
    IF Ended THEN 0
    ELSE LET k == CHOOSE j \in 1..Len(Positions) : Positions[j] = pc
         IN  8 * (Len(Positions) - k + 1)
               + (IF pc \in {"healthTrend", "compTrend"} THEN sv.i + 1 ELSE 0)

\* The run ends: it is never stuck before its end, and every statement lowers StepsLeft.
Terminates ==
    /\ [](~Ended => ENABLED Step)
    /\ [](StepsLeft >= 0)
    /\ [][today' = today /\ page' = page => StepsLeft' < StepsLeft]_vars

\* C3: once the run is in the domain blocks, whatever queries fail or succeed there,
\* it never ends in a fatal error, it reaches the write step (it terminates, and not in
\* the fatal end), and the snapshot it writes holds all five domain records and the
\* security overview.
C3_DomainFailuresNeverFatal ==
    /\ [](InDomains => pc # "failed")
    /\ [](InDomains /\ Ended => Written)
    /\ [](Written => Complete(outFile.doc))
    /\ Terminates

\* C3, its case: a written snapshot of a run in which one query of a domain block
\* failed and another succeeded.
C3_WrittenDespiteFailures ==
    /\ Written
    /\ Complete(outFile.doc)
    /\ \E k \in 1..Len(attempts) : ~attempts[k].ok /\ attempts[k].q \in LaterQueries
    /\ \E k \in 1..Len(attempts) : attempts[k].ok /\ attempts[k].q \in LaterQueries

\* A live run with both names given against a data source no query can reach.
Unreachable ==
    /\ outage = Blocks
    /\ ~params.UseSampleData
    /\ params.ServerName # ""
    /\ params.DatabaseName # ""

\* The database names of ParamSets of the form CM_<code>, in any letter case.
NameMatches == params.DatabaseName \in {"CM_DB1", "cm_x"}

ZeroBrowsers == [edge |-> 0, chrome |-> 0, firefox |-> 0, other |-> 0]

\* A synthesized trend over a percent of 0: seven points, the last one exactly 0.
TrendOverZero(t) == Len(t) = 7 /\ t[7].percent = 0

\* Every domain record holds its default: counts and percents 0, query-fed lists empty,
\* the two trend series synthesized over 0.
AllDefaulted(doc) ==
    /\ doc.clientHealth =
          [totalDevices |-> 0, activeClients |-> 0, healthyClients |-> 0, unhealthyClients |-> 0,
           inactiveClients |-> 0, clientHealthPercent |-> 0, remediationSuccess |-> 0,
           remediationFailed |-> 0, remediationTotal |-> 0,
           healthTrend |-> doc.clientHealth.healthTrend, topIssues |-> <<>>,
           osBuildDistribution |-> <<>>,
           activityBreakdown |-> [last24h |-> 0, last48h |-> 0, last7d |-> 0, over30d |-> 0]]
    /\ TrendOverZero(doc.clientHealth.healthTrend)
    /\ doc.contentDistribution =
          [totalDPs |-> 0, healthyDPs |-> 0, warningDPs |-> 0, errorDPs |-> 0,
           totalPackages |-> 0, distributedSuccess |-> 0, distributedFailed |-> 0,
           distributedInProgress |-> 0, totalContentSizeGB |-> 0, dpGroups |-> <<>>,
           failedPackages |-> <<>>, contentTypeBreakdown |-> <<>>, distributionTrend |-> <<>>]
    /\ doc.softwareUpdateCompliance =
          [totalManagedDevices |-> 0, compliantDevices |-> 0, nonCompliantDevices |-> 0,
           compliancePercent |-> 0, scanCoverage |-> 0,
           lastScanDistribution |-> [within24h |-> 0, within48h |-> 0, within7d |-> 0, over7d |-> 0],
           missingUpdatesBySeverity |->
              [critical |-> 0, important |-> 0, moderate |-> 0, low |-> 0, unrated |-> 0],
           topMissingUpdates |-> <<>>,
           complianceTrend |-> doc.softwareUpdateCompliance.complianceTrend,
           complianceByCollection |-> <<>>]
    /\ TrendOverZero(doc.softwareUpdateCompliance.complianceTrend)
    /\ doc.softwareUpdateDeployment =
          [activeDeployments |-> 0, completedDeployments |-> 0, failedDeployments |-> 0,
           deployments |-> <<>>, errorCodeBreakdown |-> <<>>, pendingRestarts |-> 0,
           deploymentSuccessRate |-> 0]
    /\ doc.edgeManagement =
          [totalEdgeInstalled |-> 0, totalDevicesWithBrowser |-> 0, edgePenetration |-> 0,
           defaultBrowserStats |-> ZeroBrowsers, edgeVersionDistribution |-> <<>>,
           browserUsageLast30d |-> ZeroBrowsers, vulnerableEdgeClients |-> 0,
           vulnerablePercent |-> 0]

\* C4 as stated: a run whose every query attempt fails is never a fatal error, and the
\* snapshot it writes holds fully defaulted domain records.
C4_UnreachableNeverFatal ==
    Unreachable =>
        /\ pc # "failed"
        /\ Written => AllDefaulted(outFile.doc)

\* C4, amended: a run whose every query attempt fails completes and writes a snapshot
\* with every domain record defaulted (the two trend series synthesized over 0) when
\* the database name has the form CM_<code>, in any letter case; with any other
\* database name it ends in a fatal error at the site-info step, before any domain
\* block, and the output file keeps what it held.
C4_UnreachableDegrades ==
    /\ [](Unreachable /\ NameMatches => pc # "failed")
    /\ [](Unreachable /\ pc = "done" => Written /\ NameMatches /\ AllDefaulted(outFile.doc))
    /\ [](Unreachable /\ ~NameMatches => pc # "done" /\ ~InDomains /\ outFile.kind = "old")
    /\ [](Unreachable /\ ~Ended => ENABLED Step)
    /\ [][Unreachable /\ today' = today /\ page' = page => StepsLeft' < StepsLeft]_vars

\* C4, its case: the snapshot of a run that reached no view, every record defaulted.
C4_DefaultedSnapshot ==
    /\ Unreachable
    /\ NameMatches
    /\ Len(attempts) >= 3
    /\ \A k \in 1..Len(attempts) : ~attempts[k].ok
    /\ Written
    /\ AllDefaulted(outFile.doc)

\* No query outside the client-health block failed.
OnlyClientFailures ==
    \A k \in 1..Len(attempts) :
        attempts[k].ok \/ attempts[k].q \in {"clientCountsJoin", "v_R_System", "osDist", "actData"}

\* The active-client count of the run in which the client-count join executes.
ReferenceActive == IntOrZero(tables.client.clientCountsJoin[1].ActiveClients)

\* C5 as stated, for failures in client health: the other records of the snapshot hold
\* what they hold in the run where the client-health queries succeeded. The content,
\* compliance and Edge counts are those of their own views, and the Edge record's
\* device base and penetration are those over the reference active-client count.
C5_ClientFailureStaysInClientHealth ==
    Written /\ OnlyClientFailures =>
        LET doc == outFile.doc
            edgeCount == IntOrZero(tables.edge.edgeInstalled[1].EdgeCount)
        IN  /\ doc.contentDistribution.totalDPs = IntOrZero(tables.content.dpData[1].TotalDPs)
            /\ doc.softwareUpdateCompliance.totalManagedDevices =
                   IntOrZero(tables.compliance.compData[1].TotalManaged)
            /\ Len(doc.softwareUpdateDeployment.deployments) = Len(tables.deploy.deployments)
            /\ doc.edgeManagement.totalEdgeInstalled = edgeCount
            /\ doc.edgeManagement.totalDevicesWithBrowser = ReferenceActive
            /\ doc.edgeManagement.edgePenetration = Percent(edgeCount, ReferenceActive)

\* The numbers of a record of counts.
Values(r) == {r[f] : f \in DOMAIN r}

\* The percent fields of the document, in tenths of a percent.
Percents(doc) ==
    {doc.clientHealth.clientHealthPercent, doc.softwareUpdateCompliance.compliancePercent,
     doc.softwareUpdateCompliance.scanCoverage,
     doc.softwareUpdateDeployment.deploymentSuccessRate,
     doc.edgeManagement.edgePenetration, doc.edgeManagement.vulnerablePercent}
    \cup {p.percent : p \in Values(doc.clientHealth.healthTrend)}
    \cup {p.percent : p \in Values(doc.softwareUpdateCompliance.complianceTrend)}
    \cup {p.percent : p \in Values(doc.clientHealth.osBuildDistribution)}
    \cup {p.percent : p \in Values(doc.edgeManagement.edgeVersionDistribution)}
    \cup {p.compliance : p \in Values(doc.contentDistribution.dpGroups)}

\* The count fields of the document.
Counts(doc) ==
    LET ch == doc.clientHealth
        cd == doc.contentDistribution
        uc == doc.softwareUpdateCompliance
        ud == doc.softwareUpdateDeployment
        em == doc.edgeManagement
    IN  {ch.totalDevices, ch.activeClients, ch.healthyClients, ch.unhealthyClients,
         ch.inactiveClients, ch.remediationSuccess, ch.remediationFailed, ch.remediationTotal,
         cd.totalDPs, cd.healthyDPs, cd.warningDPs, cd.errorDPs, cd.totalPackages,
         cd.distributedSuccess, cd.distributedFailed, cd.distributedInProgress,
         cd.totalContentSizeGB,
         uc.totalManagedDevices, uc.compliantDevices, uc.nonCompliantDevices,
         ud.activeDeployments, ud.completedDeployments, ud.failedDeployments, ud.pendingRestarts,
         em.totalEdgeInstalled, em.totalDevicesWithBrowser, em.vulnerableEdgeClients,
         doc.securityOverview.overallHealthScore}
        \cup Values(ch.activityBreakdown) \cup Values(uc.lastScanDistribution)
        \cup Values(uc.missingUpdatesBySeverity) \cup Values(em.defaultBrowserStats)
        \cup Values(em.browserUsageLast30d)
        \cup {p.count : p \in Values(ch.osBuildDistribution)}
        \cup {p.count : p \in Values(em.edgeVersionDistribution)}
        \cup {p.count : p \in Values(ud.errorCodeBreakdown)}
        \cup {p.missing : p \in Values(uc.topMissingUpdates)}
        \cup {p.failedDPs : p \in Values(cd.failedPackages)}
        \cup UNION {{p.members, p.packages} : p \in Values(cd.dpGroups)}
        \cup UNION {{p.total, p.installed, p.downloading, p.waiting, p.failed, p.pendingRestart} :
                      p \in Values(ud.deployments)}

\* C6 as stated: every count and every percent of a written snapshot, the trend
\* percents and nonCompliantDevices included, is at least 0.
C6_NumbersNonNegative ==
    Written => \A n \in Counts(outFile.doc) \cup Percents(outFile.doc) : n >= 0

\* C7 as stated: every percent of a written snapshot lies between 0 and 100.
C7_PercentsWithinRange ==
    Written => \A n \in Percents(outFile.doc) : 0 <= n /\ n <= 1000

\* The percents of the snapshot whose denominator is 0, and the distribution-point
\* value fed to the score when there is no distribution point (<<>> otherwise).
ZeroDenominatorPercents(doc) ==
    (IF doc.clientHealth.totalDevices = 0
     THEN {doc.clientHealth.clientHealthPercent}
          \cup {p.percent : p \in Values(doc.clientHealth.osBuildDistribution)}
     ELSE {})
    \cup (IF doc.softwareUpdateCompliance.totalManagedDevices = 0
          THEN {doc.softwareUpdateCompliance.compliancePercent,
                doc.softwareUpdateCompliance.scanCoverage}
          ELSE {})
    \cup (IF sv.grandTotal = 0 THEN {doc.softwareUpdateDeployment.deploymentSuccessRate} ELSE {})
    \cup (IF doc.edgeManagement.totalDevicesWithBrowser = 0
          THEN {doc.edgeManagement.edgePenetration} ELSE {})
    \cup (IF doc.edgeManagement.totalEdgeInstalled = 0
          THEN {p.percent : p \in Values(doc.edgeManagement.edgeVersionDistribution)} ELSE {})

\* The second of the five values behind the score is 100.
DpValueIsHundred == sv.scores[2].n = 100 * sv.scores[2].d

DocMean(doc) ==
    LET tenths == doc.clientHealth.clientHealthPercent
                    + doc.softwareUpdateCompliance.compliancePercent
                    + doc.softwareUpdateDeployment.deploymentSuccessRate
                    + (1000 - doc.edgeManagement.vulnerablePercent)
        dps    == doc.contentDistribution.totalDPs
        hn     == IF dps > 0 THEN 100 * doc.contentDistribution.healthyDPs ELSE 100
        hd     == IF dps > 0 THEN dps ELSE 1
    IN  [n |-> tenths * hd + 10 * hn, d |-> 50 * hd]

Abs(x) == IF x >= 0 THEN x ELSE 0 - x

\* C9: overallHealthScore is an integer between 0 and 100, and no integer is nearer to
\* the mean of the five domain values: it differs from the mean by at most one half.
C9_ScoreIsRoundedMean ==
    Written =>
        LET score == outFile.doc.securityOverview.overallHealthScore
            mean  == DocMean(outFile.doc)
        IN  /\ score \in 0..100
            /\ 2 * Abs(score * mean.d - mean.n) <= mean.d

\* C9, its case: every query executed, the mean is not an integer (71 2/3) and the
\* written score is 72.
C9_FractionalMeanRounded ==
    /\ Written
    /\ \A k \in 1..Len(attempts) : attempts[k].ok
    /\ DocMean(outFile.doc).n % DocMean(outFile.doc).d # 0
    /\ 2 * (DocMean(outFile.doc).n % DocMean(outFile.doc).d) > DocMean(outFile.doc).d
    /\ outFile.doc.securityOverview.overallHealthScore = 72

\* C10: riskLevel is "low" exactly when the score is at least 85, "medium" exactly when
\* it is at least 65 and below 85, "high" exactly when it is below 65.
C10_RiskTiers ==
    Written =>
        LET score == outFile.doc.securityOverview.overallHealthScore
            risk  == outFile.doc.securityOverview.riskLevel
        IN  /\ risk \in {"low", "medium", "high"}
            /\ risk = "low" <=> score >= 85
            /\ risk = "medium" <=> (score >= 65 /\ score < 85)
            /\ risk = "high" <=> score < 65

\* C10, its case: a snapshot whose score sits on the upper threshold, 85, and reads "low".
C10_ScoreOnThreshold ==
    /\ Written
    /\ outFile.doc.securityOverview.overallHealthScore = 85
    /\ outFile.doc.securityOverview.riskLevel = "low"

(***************************************************************************)
(* The trend series.                                                       *)
(***************************************************************************)
\* The two trend series of a document.
HealthTrendOf(doc) == doc.clientHealth.healthTrend
ComplianceTrendOf(doc) == doc.softwareUpdateCompliance.complianceTrend

\* C11: in every written snapshot the health trend and the compliance trend have
\* exactly 7 points each, whatever queries failed and also when the client-health block
\* was aborted part-way by an error.
C11_TrendsHaveSevenPoints ==
    Written => /\ Len(HealthTrendOf(outFile.doc)) = 7
               /\ Len(ComplianceTrendOf(outFile.doc)) = 7

\* C12: in every written snapshot the last point of the health trend carries exactly
\* clientHealthPercent and the last point of the compliance trend carries exactly
\* compliancePercent (of a series that has a last point).
C12_LastPointIsCurrentPercent ==
    Written =>
        LET ht == HealthTrendOf(outFile.doc)
            ct == ComplianceTrendOf(outFile.doc)
        IN  /\ Len(ht) > 0 => ht[Len(ht)].percent = outFile.doc.clientHealth.clientHealthPercent
            /\ Len(ct) > 0 =>
                  ct[Len(ct)].percent = outFile.doc.softwareUpdateCompliance.compliancePercent

\* C12, its case: a written snapshot with two 7-point series over non-zero percents, each
\* with an earlier point that differs from the current percent and a last point equal to it.
C12_LastPointPinned ==
    /\ Written
    /\ LET ht == HealthTrendOf(outFile.doc)
           ct == ComplianceTrendOf(outFile.doc)
           hp == outFile.doc.clientHealth.clientHealthPercent
           cp == outFile.doc.softwareUpdateCompliance.compliancePercent
       IN  /\ Len(ht) = 7 /\ Len(ct) = 7
           /\ hp > 0 /\ cp > 0
           /\ \E k \in 1..6 : ht[k].percent # hp
           /\ \E k \in 1..6 : ct[k].percent # cp
           /\ ht[7].percent = hp
           /\ ct[7].percent = cp

\* C13: in every written snapshot the dates of consecutive points of each trend series
\* differ by exactly one calendar day, also when midnight passes between the reads of
\* the clock that date the points.
C13_ConsecutiveDays ==
    Written =>
        \A t \in {HealthTrendOf(outFile.doc), ComplianceTrendOf(outFile.doc)} :
            \A k \in 1..(Len(t) - 1) : t[k + 1].date = t[k].date + 1

\* C14: in every written snapshot each point before the last of the health trend lies
\* between 2 below and 0 above clientHealthPercent, and each point before the last of
\* the compliance trend lies between 3 below and 1 above compliancePercent (percents in
\* tenths).
C14_OffsetsWithinBound ==
    Written =>
        LET ht == HealthTrendOf(outFile.doc)
            ct == ComplianceTrendOf(outFile.doc)
            hp == outFile.doc.clientHealth.clientHealthPercent
            cp == outFile.doc.softwareUpdateCompliance.compliancePercent
        IN  /\ \A k \in 1..(Len(ht) - 1) : ht[k].percent - hp \in -20..0
            /\ \A k \in 1..(Len(ct) - 1) : ct[k].percent - cp \in -30..10

\* C14, its case: a written snapshot whose series reach the ends of the bounds: a health
\* point 2 below the current percent and one equal to it, a compliance point 3 below
\* and one 1 above.
C14_OffsetsAtTheBounds ==
    /\ Written
    /\ LET ht == HealthTrendOf(outFile.doc)
           ct == ComplianceTrendOf(outFile.doc)
           hp == outFile.doc.clientHealth.clientHealthPercent
           cp == outFile.doc.softwareUpdateCompliance.compliancePercent
       IN  /\ Len(ht) = 7 /\ Len(ct) = 7
           /\ \E k \in 1..6 : ht[k].percent - hp = -20
           /\ \E k \in 1..6 : ht[k].percent - hp = 0
           /\ \E k \in 1..6 : ct[k].percent - cp = -30
           /\ \E k \in 1..6 : ct[k].percent - cp = 10

(***************************************************************************)
(* The findings.                                                           *)
(***************************************************************************)
\* The four trigger counts of a document, in rule order.
TriggerCounts(doc) ==
    <<doc.clientHealth.inactiveClients,
      doc.softwareUpdateCompliance.lastScanDistribution.over7d,
      doc.contentDistribution.distributedFailed,
      doc.softwareUpdateDeployment.pendingRestarts>>

FindingsOf(doc) == doc.securityOverview.criticalFindings

\* C15: in every written snapshot the findings list is empty if and only if the four
\* trigger counts (inactiveClients, lastScanDistribution.over7d, distributedFailed,
\* pendingRestarts) are all zero.
C15_NoFindingsIffNoTriggers ==
    Written =>
        (FindingsOf(outFile.doc) = <<>>
            <=> \A r \in 1..4 : TriggerCounts(outFile.doc)[r] = 0)

\* C15, its case: a written snapshot in which the pending restarts are the only count
\* above zero, and the findings list is not empty.
C15_OnlyRestartsPending ==
    /\ Written
    /\ TriggerCounts(outFile.doc)[4] > 0
    /\ \A r \in 1..3 : TriggerCounts(outFile.doc)[r] = 0
    /\ FindingsOf(outFile.doc) # <<>>

\* The domain and the severity of the four rules, in rule order.
RuleDomains == <<"clients", "updates", "content", "deployments">>
RuleSeverities == <<"medium", "high", "medium", "medium">>

\* The rule a finding belongs to, by its domain.
RuleOf(f) == CHOOSE r \in 1..4 : RuleDomains[r] = f.domain

\* C16: in every written snapshot each finding belongs to one of the four rules and
\* carries that rule's severity and domain; a rule has a finding exactly when its count
\* is greater than 0; and the findings stand in rule order, so that no rule has two
\* findings and the list has at most 4 entries.
C16_FindingsFollowTheRules ==
    Written =>
        LET f == FindingsOf(outFile.doc)
            n == TriggerCounts(outFile.doc)
        IN  /\ Len(f) <= 4
            /\ \A k \in 1..Len(f) :
                  /\ f[k].domain \in {RuleDomains[r] : r \in 1..4}
                  /\ f[k].severity = RuleSeverities[RuleOf(f[k])]
            /\ \A r \in 1..4 : n[r] > 0 <=> \E k \in 1..Len(f) : f[k].domain = RuleDomains[r]
            /\ \A j, k \in 1..Len(f) : j < k => RuleOf(f[j]) < RuleOf(f[k])

\* C16, its case: a written snapshot in which all four counts are above zero and the
\* list holds the four findings, the stale-scan one with severity high.
C16_AllFourRulesFire ==
    /\ Written
    /\ \A r \in 1..4 : TriggerCounts(outFile.doc)[r] > 0
    /\ Len(FindingsOf(outFile.doc)) = 4
    /\ FindingsOf(outFile.doc)[2].severity = "high"

(***************************************************************************)
(* Parameters and sample mode.                                             *)
(***************************************************************************)
\* A live run without its server name or without its database name.
MissingName == ~params.UseSampleData /\ (params.ServerName = "" \/ params.DatabaseName = "")

\* What the output path holds before the run.
PriorFile == [kind |-> "old", doc |-> <<>>]

\* C17: a live run without server name or database name stops with the configuration
\* error (it leaves the start only for the fatal end), sends no query, processes no
\* domain (no script variable is assigned), and leaves the output file as it was.
C17_MissingNameIsFatalBeforeQueries ==
    MissingName =>
        /\ pc \in {"start", "failed"}
        /\ pc = "start" => ENABLED ValidateParams
        /\ attempts = <<>>
        /\ sv = InitVars
        /\ outFile = PriorFile

\* C17, its case: a run with a server name and no database name, ended in the fatal end.
C17_NoDatabaseNameEnded ==
    /\ pc = "failed"
    /\ ~params.UseSampleData
    /\ params.ServerName # ""
    /\ params.DatabaseName = ""

\* C18: a run in sample mode, with or without the two names, sends no query and
\* processes no domain; it ends either with the sample document at the output path or,
\* when the sample document does not exist, in the fatal end with the output path as it
\* was before the run.
C18_SampleModeCopiesWithoutQueries ==
    params.UseSampleData =>
        /\ pc \in {"start", "done", "failed"}
        /\ pc = "start" => ENABLED SampleData /\ outFile = PriorFile
        /\ pc = "done" => outFile = [kind |-> "sample", doc |-> <<>>]
        /\ pc = "failed" => outFile = PriorFile
        /\ attempts = <<>>
        /\ sv = InitVars

\* C18, its case: a run in sample mode without server name and database name that
\* ended with the sample document at the output path.
C18_SampleCopiedWithoutNames ==
    /\ params.UseSampleData
    /\ params.ServerName = "" /\ params.DatabaseName = ""
    /\ pc = "done"
    /\ outFile.kind = "sample"

(***************************************************************************)
(* The write of the snapshot.                                              *)
(***************************************************************************)
\* C19: at every moment the output path holds a complete document, the one from before
\* the run or the new one (the snapshot or the sample), never a partially written one;
\* so a write that stops part-way leaves the prior file intact.
C19_OutputNeverPartial ==
    \/ outFile = PriorFile
    \/ outFile.kind = "sample"
    \/ outFile.kind = "snapshot" /\ Complete(outFile.doc)

(***************************************************************************)
(* The order of the steps.                                                 *)
(***************************************************************************)
\* The step a position belongs to: 1 site info, 2 client health, 3 content distribution,
\* 4 update compliance, 5 update deployment, 6 edge management, 7 security overview,
\* 8 write, 9 the end.
StepOf(p) ==
    CASE p \in {"start", "site1", "site2", "site3", "site4", "environment"} -> 1
      [] p \in {"client", "clientJoin", "clientFallback", "clientNormalize", "healthTrend",
                "osDist", "activity", "clientRecord"} -> 2
      [] p \in {"content", "dpData", "contentSummary", "dpGroups", "failedPkgs"} -> 3
      [] p \in {"compliance", "compData", "missingSev", "topMissing", "scanData",
                "compTrend", "complianceRecord"} -> 4
      [] p \in {"deploy", "deployments", "errCodes", "deployRecord"} -> 5
      [] p \in {"edge", "edgeInstalled", "dbData", "verData", "edgeRecord"} -> 6
      [] p = "security" -> 7
      [] p \in {"output", "writing"} -> 8
      [] p \in {"done", "failed"} -> 9

\* The records of the script, each with the step that computes it.
RecordSteps ==
    [environment |-> 1, clientHealth |-> 2, contentDistribution |-> 3,
     softwareUpdateCompliance |-> 4, softwareUpdateDeployment |-> 5,
     edgeManagement |-> 6, securityOverview |-> 7]

\* C20: within one live run the position never moves back to an earlier step and moves
\* on by at most one step at a time (site info, client health, content distribution,
\* update compliance, update deployment, edge management, security overview, write);
\* each record is assigned only within its own step; the output file changes only in the
\* write step, first from the prior file to the opened one and then to the snapshot, and
\* never again; while the file is being written or is written, all five domain records
\* and the security overview are computed, and the snapshot holds exactly them; and once
\* the security overview is computed no record changes.
C20_FixedOrderSingleWrite ==
    /\ [][~params.UseSampleData /\ pc' # "failed" =>
              StepOf(pc') \in {StepOf(pc), StepOf(pc) + 1}]_vars
    /\ [][\A r \in DOMAIN RecordSteps : sv'[r] # sv[r] => StepOf(pc) = RecordSteps[r]]_vars
    /\ [][~params.UseSampleData /\ outFile' # outFile =>
              /\ StepOf(pc) = 8
              /\ \/ outFile = PriorFile /\ outFile'.kind = "partial"
                 \/ outFile.kind = "partial" /\ outFile'.kind = "snapshot" /\ pc' = "done"]_vars
    /\ [](~params.UseSampleData /\ outFile # PriorFile =>
              \A r \in DOMAIN RecordSteps : sv[r] # <<>>)
    /\ [](Written => \A r \in DOMAIN RecordSteps : outFile.doc[r] = sv[r])
    /\ [][sv.securityOverview # <<>> =>
              \A r \in DOMAIN RecordSteps : sv'[r] = sv[r]]_vars

\* C20, its case: a live run over the populated database in which every query executed
\* and the snapshot is written, holding the six records as the steps computed them.
C20_FullRunWritten ==
    /\ Written
    /\ tables = PopulatedDb /\ outage = {}
    /\ Len(attempts) > 0
    /\ \A k \in 1..Len(attempts) : attempts[k].ok
    /\ \A r \in DOMAIN RecordSteps : outFile.doc[r] = sv[r] /\ sv[r] # <<>>

(***************************************************************************)
(* Degraded and empty domains.                                             *)
(***************************************************************************)
\* The queries of each domain block, its record in the document, and its tables when
\* the site holds nothing for it.
BlockQueries ==
    [client     |-> {"clientCountsJoin", "v_R_System", "osDist", "actData"},
     content    |-> {"dpData", "contentSummary", "dpGroups", "failedPkgs"},
     compliance |-> {"compData", "missingSev", "topMissing", "scanData"},
     deploy     |-> {"deployments", "errCodes"},
     edge       |-> {"edgeInstalled", "dbData", "verData"}]
BlockRecord ==
    [client |-> "clientHealth", content |-> "contentDistribution",
     compliance |-> "softwareUpdateCompliance", deploy |-> "softwareUpdateDeployment",
     edge |-> "edgeManagement"]
EmptyTables ==
    [client |-> EmptyClients, content |-> EmptyContent, compliance |-> EmptyCompliance,
     deploy |-> EmptyDeploy, edge |-> EmptyEdge]

\* The attempts of block b so far.
BlockLog(b) == SelectSeq(attempts, LAMBDA a : a.q \in BlockQueries[b])

\* Every query of block b failed; every query of block b executed, over empty tables.
Degraded(b) == BlockLog(b) # <<>> /\ \A k \in 1..Len(BlockLog(b)) : ~BlockLog(b)[k].ok
AnsweredEmpty(b) ==
    /\ tables[b] = EmptyTables[b]
    /\ BlockLog(b) # <<>> /\ \A k \in 1..Len(BlockLog(b)) : BlockLog(b)[k].ok

\* The record of each domain when nothing is known of it: counts and percents 0, lists
\* empty, the trend series as the document has them, the browser population as client
\* health counted it.
DefaultRecords(doc) ==
    [client |->
        [totalDevices |-> 0, activeClients |-> 0, healthyClients |-> 0, unhealthyClients |-> 0,
         inactiveClients |-> 0, clientHealthPercent |-> 0, remediationSuccess |-> 0,
         remediationFailed |-> 0, remediationTotal |-> 0,
         healthTrend |-> doc.clientHealth.healthTrend, topIssues |-> <<>>,
         osBuildDistribution |-> <<>>,
         activityBreakdown |-> [last24h |-> 0, last48h |-> 0, last7d |-> 0, over30d |-> 0]],
     content |->
        [totalDPs |-> 0, healthyDPs |-> 0, warningDPs |-> 0, errorDPs |-> 0,
         totalPackages |-> 0, distributedSuccess |-> 0, distributedFailed |-> 0,
         distributedInProgress |-> 0, totalContentSizeGB |-> 0, dpGroups |-> <<>>,
         failedPackages |-> <<>>, contentTypeBreakdown |-> <<>>, distributionTrend |-> <<>>],
     compliance |->
        [totalManagedDevices |-> 0, compliantDevices |-> 0, nonCompliantDevices |-> 0,
         compliancePercent |-> 0, scanCoverage |-> 0,
         lastScanDistribution |-> [within24h |-> 0, within48h |-> 0, within7d |-> 0, over7d |-> 0],
         missingUpdatesBySeverity |->
            [critical |-> 0, important |-> 0, moderate |-> 0, low |-> 0, unrated |-> 0],
         topMissingUpdates |-> <<>>,
         complianceTrend |-> doc.softwareUpdateCompliance.complianceTrend,
         complianceByCollection |-> <<>>],
     deploy |->
        [activeDeployments |-> 0, completedDeployments |-> 0, failedDeployments |-> 0,
         deployments |-> <<>>, errorCodeBreakdown |-> <<>>, pendingRestarts |-> 0,
         deploymentSuccessRate |-> 0],
     edge |->
        [totalEdgeInstalled |-> 0,
         totalDevicesWithBrowser |-> doc.clientHealth.activeClients, edgePenetration |-> 0,
         defaultBrowserStats |-> ZeroBrowsers, edgeVersionDistribution |-> <<>>,
         browserUsageLast30d |-> ZeroBrowsers, vulnerableEdgeClients |-> 0,
         vulnerablePercent |-> 0]]

\* The record of block b in the document is the default one, its trend series (if it
\* has one) synthesized over 0.
IsDefaultRecord(doc, b) ==
    /\ doc[BlockRecord[b]] = DefaultRecords(doc)[b]
    /\ b = "client" => TrendOverZero(HealthTrendOf(doc))
    /\ b = "compliance" => TrendOverZero(ComplianceTrendOf(doc))

\* C21: in every written snapshot the record of a domain whose queries all failed and
\* the record of a domain whose queries all executed over an empty site are the same
\* record, the default one (apart from the random offsets of the trend points), and the
\* document has the same fields whatever failed: none of them reports an error.
C21_DegradedLooksEmpty ==
    Written =>
        /\ Complete(outFile.doc)
        /\ \A b \in DOMAIN BlockRecord :
              Degraded(b) \/ AnsweredEmpty(b) => IsDefaultRecord(outFile.doc, b)

(***************************************************************************)
(* Variants that execute without a row.                                    *)
(***************************************************************************)
\* The attempt executed and returned no row. The client-count variants are aggregates
\* without GROUP BY: they return one row whatever the views hold.
ZeroRows(a) == a.ok /\ a.q \in {"v_Site", "v_Identification", "SC_SiteDefinition"}
                    /\ SiteAnswer(a.q) = <<>>

\* C22 as stated: in both chains a variant that executed without error, zero rows
\* included, is the last variant of its chain that is attempted.
C22_ZeroRowsEndTheChain ==
    /\ \A k \in 1..(Len(SiteLog) - 1) : ~ZeroRows(SiteLog[k])
    /\ \A k \in 1..(Len(SiteLog) - 1) : ~Answered(SiteLog[k])
    /\ \A k \in 1..(Len(ClientLog) - 1) : ~ClientLog[k].ok

\* C22, amended: a client-count variant that executes ends its chain whatever it
\* returns, and so does a site view that returns a row naming a site; a site view that
\* executes and returns no row does not: once the site chain is over, the view after it
\* has been attempted.
C22_ZeroRowsFallThrough ==
    LET sl == SiteLog
        cl == ClientLog
    IN
    /\ \A k \in 1..(Len(cl) - 1) : ~cl[k].ok
    /\ \A k \in 1..(Len(sl) - 1) : ~Answered(sl[k])
    /\ SiteChainOver =>
          \A k \in 1..Len(sl) : ZeroRows(sl[k]) /\ k < Len(SiteViews) =>
              Len(sl) > k /\ sl[k + 1].q = SiteViews[k + 1]

\* C22, its case: v_Site and v_Identification executed and returned no row,
\* SC_SiteDefinition was asked third and named the site of the written snapshot.
C22_TwoViewsWithoutRows ==
    /\ Written
    /\ Len(SiteLog) = 3
    /\ ZeroRows(SiteLog[1]) /\ ZeroRows(SiteLog[2])
    /\ Answered(SiteLog[3])
    /\ outFile.doc.environment.siteCode = tables.site.scInfo[1].SiteCode

(***************************************************************************)
(* The colours of the dashboard.                                           *)
(***************************************************************************)
\* The band a class name, a bar class or a colour code stands for.
ColourName(x) ==
    CASE x \in {"rag-green", "progress-green", "pill-green", COLORS.green} -> "green"
      [] x \in {"rag-amber", "progress-amber", "pill-amber", COLORS.amber} -> "amber"
      [] x \in {"rag-red", "progress-red", "pill-red", COLORS.red} -> "red"
      [] OTHER -> "none"

\* x shows the band of v (in tenths) for the thresholds hi and lo.
InBand(x, v, hi, lo) ==
    /\ ColourName(x) = "green" <=> v >= hi
    /\ ColourName(x) = "amber" <=> (lo <= v /\ v < hi)
    /\ ColourName(x) = "red" <=> v < lo

PageShown == page # <<>> /\ page.loaded

\* C23: every coloured value of a rendered page is green iff v >= hi, amber iff
\* lo <= v < hi and red iff v < lo; the class and the colour of the same value agree;
\* the cards and the domain sections use the thresholds 90 and 75, the overall ring
\* uses 85 and 65.
C23_RagBands ==
    PageShown =>
        LET d == outFile.doc
        IN  /\ InBand(page.ringStroke, 10 * d.securityOverview.overallHealthScore, 850, 650)
            /\ \A i \in 1..5 : /\ page.cards[i].value.d = 1
                               /\ InBand(page.cards[i].rag, page.cards[i].value.n, 900, 750)
            /\ InBand(page.clientColor, d.clientHealth.clientHealthPercent, 900, 750)
            /\ InBand(page.clientBar, d.clientHealth.clientHealthPercent, 900, 750)
            /\ InBand(page.dpColor, d.contentDistribution.healthyDPs, 900, 750)
            /\ \A i \in DOMAIN page.dpGroupBars :
                   InBand(page.dpGroupBars[i], d.contentDistribution.dpGroups[i].compliance,
                          900, 750)
            /\ InBand(page.compColor, d.softwareUpdateCompliance.compliancePercent, 900, 750)
            /\ InBand(page.compBar, d.softwareUpdateCompliance.compliancePercent, 900, 750)
            /\ InBand(page.edgeColor, d.edgeManagement.edgePenetration, 900, 750)
            /\ ColourName(page.clientColor) = ColourName(page.clientBar)
            /\ ColourName(page.compColor) = ColourName(page.compBar)
            /\ \A t \in {DefaultThresholds, RingThresholds} :
                   \A v \in {d.clientHealth.clientHealthPercent,
                             10 * d.securityOverview.overallHealthScore} :
                       ColourName(ragClass(Num(v), t)) = ColourName(ragColor(Num(v), t))

\* A card whose value is exactly on the upper threshold is shown green.
C23_CardOnTheThreshold ==
    /\ PageShown
    /\ page.cards[1].value = Num(900)
    /\ page.cards[1].rag = "rag-green"

(***************************************************************************)
(* The end of the site-info chain.                                         *)
(***************************************************************************)
SitePositions == {"site1", "site2", "site3", "site4"}

\* The run ended in the throw of attempt 4.
SiteFatal == pc = "failed" /\ attempts # <<>>

\* C24: the site-info chain always terminates, with a non-empty site code or with the
\* fatal error of attempt 4; it is fatal only when no view yielded a code and the
\* database name does not match CM_<code>, and then no domain was queried and the
\* output file is untouched; every snapshot written holds a non-empty
\* environment.siteCode.
C24_SiteChainEnds ==
    /\ [](pc \in SitePositions => ENABLED Step)
    /\ [][(pc \in SitePositions /\ today' = today /\ page' = page)
              => (StepsLeft' < StepsLeft)]_vars
    /\ [](pc \notin SitePositions \cup {"start", "failed"} /\ ~params.UseSampleData
             => sv.siteCode # "")
    /\ [](pc = "site4" /\ sv.siteCode = "" /\ CmCapture(params.DatabaseName) # ""
             => ENABLED (Step /\ pc' = "environment"))
    /\ [](pc = "site4" /\ sv.siteCode = "" /\ CmCapture(params.DatabaseName) = ""
             => ENABLED (Step /\ pc' = "failed"))
    /\ [](SiteFatal =>
             /\ sv.siteCode = ""
             /\ CmCapture(params.DatabaseName) = ""
             /\ [k \in 1..Len(attempts) |-> attempts[k].q] = SiteViews
             /\ \A k \in 1..3 :
                    attempts[k].ok => tables.site[<<"siteInfo", "idInfo", "scInfo">>[k]] = <<>>
             /\ ~InDomains
             /\ outFile.kind = "old")
    /\ [](outFile.kind = "snapshot" => outFile.doc.environment.siteCode # "")

\* C24, its case: the fatal end of a chain whose three views executed without a row,
\* under a database name that is not of the form CM_<code>.
C24_NoCodeAnywhere ==
    /\ SiteFatal
    /\ Len(attempts) = 3
    /\ \A k \in 1..3 : attempts[k].ok
    /\ params.DatabaseName = "CM_"
    /\ outFile.kind = "old"

(***************************************************************************)
(* The security overview of a run that reached no view.                    *)
(***************************************************************************)
\* C25: when every query fails and the site code is derived from the database name,
\* the snapshot reports overallHealthScore 40 (the average of 0, 100, 0, 0, 100),
\* riskLevel "high" and no finding.
C25_AllFailedScoresForty ==
    Unreachable /\ Written =>
        /\ sv.scores = <<[n |-> 0, d |-> 10], [n |-> 100, d |-> 1], [n |-> 0, d |-> 10],
                         [n |-> 0, d |-> 10], [n |-> 1000, d |-> 10]>>
        /\ outFile.doc.securityOverview =
              [overallHealthScore |-> 40, riskLevel |-> "high", criticalFindings |-> <<>>]

\* C25, its case: a snapshot scored 40 after all 21 query attempts of the run failed.
C25_FortyAfterNoAnswer ==
    /\ Unreachable
    /\ Written
    /\ sv.siteCode = "DB1"
    /\ \A k \in 1..Len(attempts) : ~attempts[k].ok
    /\ outFile.doc.securityOverview.overallHealthScore = 40

(***************************************************************************)
(* The written snapshot as the dashboard shows it.                         *)
(***************************************************************************)
\* C26: on the page rendered from a snapshot the collector wrote, the colour of the
\* overall ring agrees with the snapshot's riskLevel: green iff "low", amber iff
\* "medium", red iff "high".
C26_RingAgreesWithRisk ==
    PageShown =>
        LET level == outFile.doc.securityOverview.riskLevel
        IN  /\ level \in {"low", "medium", "high"}
            /\ ColourName(page.ringStroke) = "green" <=> level = "low"
            /\ ColourName(page.ringStroke) = "amber" <=> level = "medium"
            /\ ColourName(page.ringStroke) = "red" <=> level = "high"

\* C26, its case: a snapshot scored exactly 85, "low", shown with a green ring.
C26_GreenRingAtEightyFive ==
    /\ PageShown
    /\ outFile.doc.securityOverview = [overallHealthScore |-> 85, riskLevel |-> "low",
                                       criticalFindings |-> outFile.doc.securityOverview.criticalFindings]
    /\ page.ringStroke = COLORS.green

\* Card i of the page shows the value that entered the average as score i.
CardIsScore(i) ==
    page.cards[i].value.n * sv.scores[i].d = 10 * sv.scores[i].n * page.cards[i].value.d

\* C27: the five values shown on the score cards of a rendered snapshot (clients,
\* content, compliance, deployments, Edge) are the five values the collector averaged
\* into overallHealthScore.
C27_CardsAreTheScores ==
    PageShown => \A i \in 1..5 : CardIsScore(i)

(***************************************************************************)
(* The deployment record.                                                  *)
(***************************************************************************)
RECURSIVE SumPendingRestart(_)
SumPendingRestart(entries) ==
    IF entries = <<>> THEN 0
    ELSE Head(entries).pendingRestart + SumPendingRestart(Tail(entries))

\* The deployment query of the run was attempted and failed.
DeployQueryFailed == \E k \in 1..Len(attempts) : attempts[k].q = "deployments" /\ ~attempts[k].ok

\* C28: in every written snapshot pendingRestarts is the sum of pendingRestart over the
\* entries of deployments, whether the deployment block ran to its end or was aborted
\* by an error; the same holds of $totalPendingRestarts and $deployArray from the end
\* of the row loop on.
C28_PendingRestartsIsTheSum ==
    /\ Written =>
          outFile.doc.softwareUpdateDeployment.pendingRestarts
             = SumPendingRestart(outFile.doc.softwareUpdateDeployment.deployments)
    /\ sv.totalPendingRestarts = SumPendingRestart(sv.deployArray)

\* C28, its case: a snapshot with two deployment entries and one pending restart.
C28_OnePendingRestart ==
    /\ Written
    /\ Len(outFile.doc.softwareUpdateDeployment.deployments) = 2
    /\ outFile.doc.softwareUpdateDeployment.pendingRestarts = 1
    /\ ~DeployQueryFailed

\* The entries of deployments with status st.
WithStatus(doc, st) ==
    {k \in 1..Len(doc.softwareUpdateDeployment.deployments) :
        doc.softwareUpdateDeployment.deployments[k].status = st}

\* C29: in every written snapshot activeDeployments is the number of entries of
\* deployments with status "active", failedDeployments the number with status
\* "warning", and the two add up to the number of entries.
C29_CountsMatchEntries ==
    Written =>
        LET d == outFile.doc.softwareUpdateDeployment
        IN  /\ d.activeDeployments = Cardinality(WithStatus(outFile.doc, "active"))
            /\ d.failedDeployments = Cardinality(WithStatus(outFile.doc, "warning"))
            /\ d.activeDeployments + d.failedDeployments = Len(d.deployments)

(***************************************************************************)
(* The file server.                                                        *)
(***************************************************************************)
\* The file a request path names: "/" is the index page.
Asked(req) == IF req = "/" THEN "/index.html" ELSE req

\* Every accepted request but the one in hand has exactly one response, in the order
\* of acceptance, and at most one request is in hand.
AnsweredOnceInOrder ==
    /\ Len(srv.log) = Len(srv.accepted) - (IF srv.at = "handle" THEN 1 ELSE 0)
    /\ \A k \in 1..Len(srv.log) : srv.log[k].req = srv.accepted[k]
    /\ srv.at = "handle" => srv.req = srv.accepted[Len(srv.accepted)]

\* C30: the server answers every accepted request exactly once before it accepts the
\* next, one request at a time: with status 200 and the bytes of the file iff the
\* path ("/" standing for "/index.html") names an existing file under the root, and
\* with status 404 otherwise.
C30_ServesFilesOneAtATime ==
    /\ AnsweredOnceInOrder
    /\ \A k \in 1..Len(srv.log) :
          IF Asked(srv.log[k].req) \in Files
          THEN srv.log[k].status = 200 /\ srv.log[k].body = <<FileBytes(Asked(srv.log[k].req))>>
          ELSE srv.log[k].status = 404

====
